---- MODULE Spec2Model ----
(***************************************************************************)
(* Request-admission and tool-execution safety layer of the personal       *)
(* assistant bot: the token-bucket rate limiter (rate-limit.middleware)    *)
(* and the tool permission service with its in-memory cache.               *)
(*                                                                         *)
(* Token counts are JavaScript floating-point numbers in the source; here  *)
(* they are fixed-point integers in units of 1/Scale token, which is exact *)
(* for the configured rates (0.5 and 1.67 tokens/s) and whole              *)
(* milliseconds of elapsed time.  Date.now() is the variable clock (ms).   *)
(***************************************************************************)
EXTENDS Integers, Sequences, FiniteSets, TLC

VARIABLES
    clock,          \* Date.now(), milliseconds
    globalBucket,   \* the shared TokenBucket
    userBuckets,    \* Map<number, TokenBucket>; NoBucket = key absent
    req,            \* the update being processed by rateLimitMiddleware
    attempts,       \* history: per caller, number of attempts decided so far
    admitted,       \* history: per caller, number of those that were admitted
    elapsed,        \* history: the clock has changed since start-up
    skews,          \* history: number of times the clock was set back
    faults,         \* history: number of exceptions injected into the checks
    store,          \* tool_permissions table: one row, or NoRow, per (caller, tool)
    permissionCache,    \* Map<string, boolean>; "absent" = no entry
    cacheTimestamps,    \* Map<string, number>; NoTime = no entry
    procs,          \* the permission-service calls in flight
    lastSolo,       \* history: per pair, the last grant/revoke that succeeded alone
    revoked,        \* history: per pair, a revoke succeeded and no grant began since
    storeUp,        \* the tool_permissions store can be reached
    cacheAge,       \* history: per pair, time passed since its entry was cached
    tw,             \* the executeWithTimeout call: its timer, its operation, its outcome
    tool,           \* the tool invocation being executed by an adapter
    metrics,        \* Map<string, MetricDataPoint[]>: per name, the stored samples
    alertCooldowns, \* Map<string, number>: per alert type, time of its last alert
    alerts,         \* history: per alert type, the times at which it fired
    alertAudits,    \* history: per alert type, number of auditLog('error') calls
    recorded,       \* history: per name, every sample ever recorded
    lastStats,      \* history: what the last aggregateMetrics counted and triggered
    lastIndex,      \* lastIndex of the module-level pattern /;\s*[a-zA-Z]/g
    call,           \* the last validateUserInput call: its arguments and its result
    hd,             \* the update going through the middlewares and the message handler
    lp,             \* the tool-use loop of handleMessageWithTools for one message
    rt,             \* the call of a retry helper in progress
    svc             \* the MonitoringService object and the timers it registered

rlVars == <<globalBucket, userBuckets, req, attempts, admitted, elapsed, skews, faults>>

permVars == <<store, permissionCache, cacheTimestamps, procs, lastSolo, revoked,
              storeUp, cacheAge>>

toolVars == <<tw, tool>>

monVars == <<metrics, alertCooldowns, alerts, alertAudits, recorded, lastStats>>

gateVars == <<lastIndex, call, hd>>

loopVars == <<lp>>

retryVars == <<rt>>

svcVars == <<svc>>

vars == <<clock, rlVars, permVars, toolVars, monVars, gateVars, loopVars, retryVars,
         svcVars>>

----------------------------------------------------------------------------
(* Bounds of the model *)

\* last clock value the model reaches, in ticks of TickMs
MaxTicks == 1

\* number of attempts the heavy caller (HeavyUser) makes at most
MaxAttempts == 32

\* number of attempts any other caller makes at most
MaxOtherAttempts == 1

\* attempts already admitted, at start-up time, from callers outside Users
\* (each a previously unseen caller, so each took one global token)
InitialLoad == 68

\* number of times the wall clock is set back
MaxSkews == 1

\* number of exceptions injected into the bucket checks: one for every two
\* disturbances of the clock, and at least one
MaxFaults == (MaxSkews + 1) \div 2

(* Program constants *)

\* fixed-point unit: 1 token = Scale units
Scale == 100000

USER_CAPACITY == 30
\* 0.5 tokens per second, in units per second
USER_REFILL_RATE == Scale \div 2
GLOBAL_CAPACITY == 100
\* 1.67 tokens per second, in units per second
GLOBAL_REFILL_RATE == (167 * Scale) \div 100

\* one step of the wall clock, ms: the time a caller's bucket takes to gain
\* one token
TickMs == (1000 * Scale) \div USER_REFILL_RATE

\* Date.now() when the process starts: some positive time
Epoch == 1000 * TickMs

\* caller identities (ctx.from.id); NoUser is an update without ctx.from
Users == {"c1", "c2"}
HeavyUser == "c1"
NoUser == "nobody"

NoBucket == [tokens |-> -1, lastRefill |-> -1]

----------------------------------------------------------------------------
(* TokenBucket *)

Min(a, b) == IF a <= b THEN a ELSE b

\* Math.ceil(a / b) for b > 0
Ceil(a, b) == -((-a) \div b)

NewBucket(capacity, now) == [tokens |-> capacity * Scale, lastRefill |-> now]

\* TokenBucket.getTokens: refill, then read
GetTokens(b, capacity, refillRate, now) ==
    Min(capacity * Scale, b.tokens + ((now - b.lastRefill) * refillRate) \div 1000)

\* TokenBucket.refill
Refill(b, capacity, refillRate, now) ==
    LET tokensToAdd == ((now - b.lastRefill) * refillRate) \div 1000
    IN  [tokens |-> Min(capacity * Scale, b.tokens + tokensToAdd),
         lastRefill |-> now]

\* tryConsume taking two tokens for one admission
TryConsumeTwo(b, capacity, refillRate, now) ==
    LET r == Refill(b, capacity, refillRate, now)
    IN  IF r.tokens >= Scale
        THEN [bucket |-> [r EXCEPT !.tokens = @ - 2 * Scale],
              allowed |-> TRUE, retryAfterSeconds |-> 0]
        ELSE [bucket |-> r, allowed |-> FALSE,
              retryAfterSeconds |-> Ceil(Scale - r.tokens, refillRate)]

\* tryConsume rounding the wait down (Math.floor for Math.ceil)
TryConsumeFloor(b, capacity, refillRate, now) ==
    LET r == Refill(b, capacity, refillRate, now)
    IN  IF r.tokens >= Scale
        THEN [bucket |-> [r EXCEPT !.tokens = @ - Scale],
              allowed |-> TRUE, retryAfterSeconds |-> 0]
        ELSE [bucket |-> r, allowed |-> FALSE,
              retryAfterSeconds |-> (Scale - r.tokens) \div refillRate]

\* TokenBucket.tryConsume
TryConsume(b, capacity, refillRate, now) ==
    LET r == Refill(b, capacity, refillRate, now)
    IN  IF r.tokens >= Scale
        THEN [bucket |-> [r EXCEPT !.tokens = @ - Scale],
              allowed |-> TRUE, retryAfterSeconds |-> 0]
        ELSE [bucket |-> r, allowed |-> FALSE,
              retryAfterSeconds |-> Ceil(Scale - r.tokens, refillRate)]

\* getUserBucket: get or create
GetUserBucket(u, now) ==
    IF userBuckets[u] = NoBucket THEN NewBucket(USER_CAPACITY, now)
    ELSE userBuckets[u]

----------------------------------------------------------------------------
(* rateLimitMiddleware, one update at a time (bot.start() long polling) *)

IdleReq == [pc |-> "idle", user |-> NoUser, decision |-> "none",
            retry |-> 0, audited |-> "none", counted |-> "none",
            replied |-> FALSE, errLogged |-> FALSE, nextCalls |-> 0]

AttemptBound(u) == IF u = HeavyUser THEN MaxAttempts ELSE MaxOtherAttempts

InitRL ==
    /\ clock = Epoch
    /\ globalBucket = [NewBucket(GLOBAL_CAPACITY, Epoch) EXCEPT
                          !.tokens = @ - InitialLoad * Scale]
    /\ userBuckets = [u \in Users |-> NoBucket]
    /\ req = IdleReq
    /\ attempts = [u \in Users |-> 0]
    /\ admitted = [u \in Users |-> 0]
    /\ elapsed = FALSE
    /\ skews = 0
    /\ faults = 0

\* an update without ctx.from: skip rate limiting, await next() outside try
Bypass(throws) ==
    /\ req.pc \in {"idle", "done"}
    /\ req' = [IdleReq EXCEPT !.pc = "done", !.decision = "bypass",
                              !.nextCalls = 1]
    /\ UNCHANGED <<clock, globalBucket, userBuckets, attempts, admitted, elapsed, skews, faults, permVars, toolVars, monVars, gateVars, loopVars, retryVars, svcVars>>

\* an update from caller u: the synchronous part of the try block, which
\* makes both bucket checks; fault injects an exception into that logic
Decide(u, fault) ==
    /\ req.pc \in {"idle", "done"}
    /\ attempts[u] < AttemptBound(u)
    /\ attempts' = [attempts EXCEPT ![u] = @ + 1]
    /\ LET r == [IdleReq EXCEPT !.user = u]
           g == TryConsume(globalBucket, GLOBAL_CAPACITY, GLOBAL_REFILL_RATE, clock)
           b == TryConsume(GetUserBucket(u, clock), USER_CAPACITY,
                           USER_REFILL_RATE, clock)
       IN  IF fault = "global"
           THEN \* exception before the global bucket was touched
                /\ req' = [r EXCEPT !.pc = "catch", !.decision = "fault"]
                /\ UNCHANGED <<globalBucket, userBuckets>>
           ELSE IF ~g.allowed
           THEN /\ globalBucket' = g.bucket
                /\ req' = [r EXCEPT !.pc = "audit", !.decision = "global",
                                    !.retry = g.retryAfterSeconds]
                /\ UNCHANGED userBuckets
           ELSE IF fault = "user"
           THEN \* exception after the global token was taken
                /\ globalBucket' = g.bucket
                /\ req' = [r EXCEPT !.pc = "catch", !.decision = "fault"]
                /\ UNCHANGED userBuckets
           ELSE /\ globalBucket' = g.bucket
                /\ userBuckets' = [userBuckets EXCEPT ![u] = b.bucket]
                /\ IF b.allowed
                   THEN req' = [r EXCEPT !.pc = "next", !.decision = "admitted"]
                   ELSE req' = [r EXCEPT !.pc = "audit", !.decision = "user",
                                        !.retry = b.retryAfterSeconds]
    /\ fault # "none" => faults < MaxFaults
    /\ faults' = IF req'.decision = "fault" THEN faults + 1 ELSE faults
    /\ admitted' = [admitted EXCEPT ![u] =
                       IF req'.decision = "admitted" THEN @ + 1 ELSE @]
    /\ UNCHANGED <<clock, elapsed, skews, permVars, toolVars, monVars, gateVars, loopVars, retryVars, svcVars>>

\* await auditRateLimitExceeded(...): never throws, then incrementCounter
Audit ==
    /\ req.pc = "audit"
    /\ req' = [req EXCEPT !.pc = "reply", !.audited = req.decision,
                          !.counted = req.decision]
    /\ UNCHANGED <<clock, globalBucket, userBuckets, attempts, admitted, elapsed, skews, faults, permVars, toolVars, monVars, gateVars, loopVars, retryVars, svcVars>>

\* await ctx.reply(...): the Telegram call can fail
Reply(throws) ==
    /\ req.pc = "reply"
    /\ req' = IF throws THEN [req EXCEPT !.pc = "catch"]
              ELSE [req EXCEPT !.pc = "done", !.replied = TRUE]
    /\ UNCHANGED <<clock, globalBucket, userBuckets, attempts, admitted, elapsed, skews, faults, permVars, toolVars, monVars, gateVars, loopVars, retryVars, svcVars>>

\* await next() inside the try block
CallNext(throws) ==
    /\ req.pc = "next"
    /\ req' = [req EXCEPT !.pc = IF throws THEN "catch" ELSE "done",
                          !.nextCalls = @ + 1]
    /\ UNCHANGED <<clock, globalBucket, userBuckets, attempts, admitted, elapsed, skews, faults, permVars, toolVars, monVars, gateVars, loopVars, retryVars, svcVars>>

\* a catch block that logs and drops the update (fail closed)
CatchFailClosed(throws) ==
    /\ req.pc = "catch"
    /\ req' = [req EXCEPT !.pc = "done", !.errLogged = TRUE]
    /\ UNCHANGED <<clock, globalBucket, userBuckets, attempts, admitted, elapsed, skews, faults, permVars, toolVars, monVars, gateVars, loopVars, retryVars, svcVars>>

\* catch (error): log, then await next() (fail open)
Catch(throws) ==
    /\ req.pc = "catch"
    /\ req' = [req EXCEPT !.pc = "done", !.errLogged = TRUE,
                          !.nextCalls = @ + 1]
    /\ UNCHANGED <<clock, globalBucket, userBuckets, attempts, admitted, elapsed, skews, faults, permVars, toolVars, monVars, gateVars, loopVars, retryVars, svcVars>>

\* wall-clock time passes
Tick ==
    /\ clock < Epoch + MaxTicks * TickMs
    /\ clock' = clock + TickMs
    /\ elapsed' = TRUE
    /\ UNCHANGED <<skews, globalBucket, userBuckets, req, attempts, admitted, faults, permVars, toolVars, monVars, gateVars, loopVars, retryVars, svcVars>>

\* the wall clock is set back (NTP step, manual adjustment)
ClockStepBack ==
    /\ clock > Epoch
    /\ skews < MaxSkews
    /\ clock' = clock - TickMs
    /\ elapsed' = TRUE
    /\ skews' = skews + 1
    /\ UNCHANGED <<globalBucket, userBuckets, req, attempts, admitted, faults, permVars, toolVars, monVars, gateVars, loopVars, retryVars, svcVars>>

NextRL ==
    \/ \E t \in BOOLEAN : Bypass(t)
    \/ \E u \in Users, f \in {"none", "global", "user"} : Decide(u, f)
    \/ Audit
    \/ \E t \in BOOLEAN : Reply(t)
    \/ \E t \in BOOLEAN : CallNext(t)
    \/ \E t \in BOOLEAN : Catch(t)
    \/ Tick
    \/ ClockStepBack

----------------------------------------------------------------------------
(* Tool permission service: checkToolPermission, grantToolPermission,       *)
(* revokeToolPermission over the tool_permissions table and the cache.      *)
(* Each call is a process; it suspends at its await of the store.           *)

\* 1 minute cache TTL
CACHE_TTL_MS == 60000

\* one step of the clock for the cache: half the TTL
TtlStep == CACHE_TTL_MS \div 2

\* last clock value the permission service sees, in steps of TtlStep
MaxPermTicks == 2

Procs == {"p1", "p2"}
ToolNames == {"t1"}

\* cache key `${userId}:${toolName}`
CacheKey(userId, toolName) == <<userId, toolName>>

Keys == {CacheKey(HeavyUser, t) : t \in ToolNames}
NoKey == CacheKey(NoUser, "none")

NoTime == -1

\* a row of tool_permissions (is_allowed, revoked_at), or no row
NoRow == [exists |-> FALSE, is_allowed |-> FALSE, revoked_at |-> "null"]
Rows == {NoRow} \cup
        [exists : {TRUE}, is_allowed : BOOLEAN, revoked_at : {"null", "set"}]

\* an answer without the revoked_at column: data.revoked_at is undefined
MalformedRow == [exists |-> TRUE, is_allowed |-> TRUE, revoked_at |-> "undefined"]

\* the row written by grantToolPermission's upsert
GrantedRow == [exists |-> TRUE, is_allowed |-> TRUE, revoked_at |-> "null"]

\* revokeToolPermission's update: changes the row if there is one
RevokedRow(row) ==
    IF row.exists THEN [row EXCEPT !.is_allowed = FALSE, !.revoked_at = "set"]
    ELSE row

\* a decision that ignores revoked_at
IsAllowedIgnoringRevoked(data) == data.exists /\ data.is_allowed

\* checkToolPermission: !!(data && data.is_allowed === true && data.revoked_at === null)
IsAllowed(data) == data.exists /\ data.is_allowed /\ data.revoked_at = "null"

BoolStr(b) == IF b THEN "true" ELSE "false"

\* checkToolPermission: the cache lookup
CacheHit(k) ==
    /\ permissionCache[k] # "absent"
    /\ cacheTimestamps[k] # NoTime /\ cacheTimestamps[k] # 0
    /\ clock - cacheTimestamps[k] < CACHE_TTL_MS

IdleProc == [op |-> "idle", pc |-> "idle", key |-> NoKey, outcome |-> "none",
             data |-> NoRow, result |-> "none", hit |-> FALSE,
             alone |-> TRUE, basis |-> "none", afterRevoke |-> FALSE,
             down |-> FALSE, servedAge |-> NoTime]

Active(q) == procs[q].pc \notin {"idle", "done"}

\* no other call on pair k is in flight
Quiet(p, k) == \A q \in Procs \ {p} : ~(Active(q) /\ procs[q].key = k)

\* the calls in flight on pair k are no longer alone; a grant that reached
\* the store also ends the "after the revoke" period of those calls
Disturb(p, k, granted) ==
    [q \in Procs |->
        IF q # p /\ Active(q) /\ procs[q].key = k
        THEN [procs[q] EXCEPT !.alone = FALSE,
                              !.afterRevoke = @ /\ ~granted]
        ELSE procs[q]]

InitPerm ==
    /\ permissionCache = [k \in Keys |-> "absent"]
    /\ cacheTimestamps = [k \in Keys |-> NoTime]
    /\ procs = [p \in Procs |-> IdleProc]
    /\ lastSolo = [k \in Keys |-> "none"]
    /\ revoked = [k \in Keys |-> FALSE]
    /\ storeUp = TRUE
    /\ cacheAge = [k \in Keys |-> 0]

\* checkToolPermission up to its await: cache hit returns, miss queries
CheckStart(p, k) ==
    /\ ~Active(p)
    /\ LET base == [IdleProc EXCEPT !.op = "check", !.key = k,
                                    !.alone = Quiet(p, k),
                                    !.basis = lastSolo[k],
                                    !.afterRevoke = revoked[k],
                                    !.down = ~storeUp]
       IN  procs' = [Disturb(p, k, FALSE) EXCEPT ![p] =
                        IF CacheHit(k)
                        THEN [base EXCEPT !.pc = "done", !.hit = TRUE,
                                          !.result = permissionCache[k],
                                          !.servedAge = cacheAge[k]]
                        ELSE [base EXCEPT !.pc = "query"]]
    /\ UNCHANGED <<clock, storeUp, rlVars, toolVars, monVars, gateVars, store, permissionCache, cacheTimestamps,
                   lastSolo, revoked, cacheAge, loopVars, retryVars, svcVars>>

\* the store answers the select: a row or none, data of another shape, an
\* error, or an exception; an unreachable store gives no data
CheckQuery(p, outcome) ==
    /\ procs[p].op = "check" /\ procs[p].pc = "query"
    /\ outcome \in {"ok", "malformed"} => storeUp
    /\ procs' = [procs EXCEPT ![p].pc = "resume", ![p].outcome = outcome,
                              ![p].data = CASE outcome = "ok" -> store[procs[p].key]
                                            [] outcome = "malformed" -> MalformedRow
                                            [] OTHER -> NoRow]
    /\ UNCHANGED <<clock, storeUp, rlVars, toolVars, monVars, gateVars, store, permissionCache, cacheTimestamps,
                   lastSolo, revoked, cacheAge, loopVars, retryVars, svcVars>>

\* a check that allows when the store gave no answer
CheckResumeFailOpen(p) ==
    /\ procs[p].op = "check" /\ procs[p].pc = "resume"
    /\ LET k == procs[p].key
           isAllowed == IsAllowed(procs[p].data)
       IN  IF procs[p].outcome \in {"ok", "malformed"}
           THEN /\ permissionCache' = [permissionCache EXCEPT ![k] = BoolStr(isAllowed)]
                /\ cacheTimestamps' = [cacheTimestamps EXCEPT ![k] = clock]
                /\ cacheAge' = [cacheAge EXCEPT ![k] = 0]
                /\ procs' = [procs EXCEPT ![p].pc = "done",
                                          ![p].result = BoolStr(isAllowed)]
           ELSE /\ procs' = [procs EXCEPT ![p].pc = "done", ![p].result = "true"]
                /\ UNCHANGED <<permissionCache, cacheTimestamps, cacheAge>>
    /\ UNCHANGED <<clock, storeUp, rlVars, toolVars, monVars, gateVars, store, lastSolo, revoked, loopVars, retryVars, svcVars>>

\* a check without its catch block: the client's exception reaches the caller
CheckResumeRethrow(p) ==
    /\ procs[p].op = "check" /\ procs[p].pc = "resume"
    /\ LET k == procs[p].key
           isAllowed == IsAllowed(procs[p].data)
       IN  IF procs[p].outcome \in {"ok", "malformed"}
           THEN /\ permissionCache' = [permissionCache EXCEPT ![k] = BoolStr(isAllowed)]
                /\ cacheTimestamps' = [cacheTimestamps EXCEPT ![k] = clock]
                /\ cacheAge' = [cacheAge EXCEPT ![k] = 0]
                /\ procs' = [procs EXCEPT ![p].pc = "done",
                                          ![p].result = BoolStr(isAllowed)]
           ELSE /\ procs' = [procs EXCEPT ![p].pc = "done",
                                          ![p].result = IF procs[p].outcome = "throw"
                                                        THEN "rejected" ELSE "false"]
                /\ UNCHANGED <<permissionCache, cacheTimestamps, cacheAge>>
    /\ UNCHANGED <<clock, storeUp, rlVars, toolVars, monVars, gateVars, store, lastSolo, revoked, loopVars, retryVars, svcVars>>

\* checkToolPermission after its await: an error or an exception denies and
\* caches nothing; data is decided and cached
CheckResume(p) ==
    /\ procs[p].op = "check" /\ procs[p].pc = "resume"
    /\ LET k == procs[p].key
           isAllowed == IsAllowed(procs[p].data)
       IN  IF procs[p].outcome \in {"ok", "malformed"}
           THEN /\ permissionCache' = [permissionCache EXCEPT ![k] = BoolStr(isAllowed)]
                /\ cacheTimestamps' = [cacheTimestamps EXCEPT ![k] = clock]
                /\ cacheAge' = [cacheAge EXCEPT ![k] = 0]
                /\ procs' = [procs EXCEPT ![p].pc = "done",
                                          ![p].result = BoolStr(isAllowed)]
           ELSE /\ procs' = [procs EXCEPT ![p].pc = "done", ![p].result = "false"]
                /\ UNCHANGED <<permissionCache, cacheTimestamps, cacheAge>>
    /\ UNCHANGED <<clock, storeUp, rlVars, toolVars, monVars, gateVars, store, lastSolo, revoked, loopVars, retryVars, svcVars>>

\* grantToolPermission up to the store's answer to its upsert
GrantWrite(p, k, outcome) ==
    /\ ~Active(p)
    /\ outcome = "ok" => storeUp
    /\ store' = IF outcome = "ok" THEN [store EXCEPT ![k] = GrantedRow] ELSE store
    /\ procs' = [Disturb(p, k, outcome = "ok") EXCEPT ![p] =
                    [IdleProc EXCEPT !.op = "grant", !.pc = "resume", !.key = k,
                                     !.outcome = outcome, !.alone = Quiet(p, k)]]
    /\ lastSolo' = [lastSolo EXCEPT ![k] = "none"]
    /\ revoked' = [revoked EXCEPT ![k] = @ /\ outcome # "ok"]
    /\ UNCHANGED <<clock, storeUp, rlVars, toolVars, monVars, gateVars, permissionCache, cacheTimestamps, cacheAge, loopVars, retryVars, svcVars>>

\* a grant that returns success without invalidating the cache
GrantResumeKeepCache(p) ==
    /\ procs[p].op = "grant" /\ procs[p].pc = "resume"
    /\ LET k == procs[p].key
       IN  IF procs[p].outcome = "ok"
           THEN /\ procs' = [procs EXCEPT ![p].pc = "done", ![p].result = "true"]
                /\ lastSolo' = [lastSolo EXCEPT ![k] =
                                  IF procs[p].alone THEN "grant" ELSE "none"]
           ELSE /\ procs' = [procs EXCEPT ![p].pc = "done", ![p].result = "false"]
                /\ UNCHANGED lastSolo
    /\ UNCHANGED <<clock, storeUp, rlVars, toolVars, monVars, gateVars, store, revoked, permissionCache,
                   cacheTimestamps, cacheAge, loopVars, retryVars, svcVars>>

\* grantToolPermission after its await: invalidate the cache on success
GrantResume(p) ==
    /\ procs[p].op = "grant" /\ procs[p].pc = "resume"
    /\ LET k == procs[p].key
       IN  IF procs[p].outcome = "ok"
           THEN /\ permissionCache' = [permissionCache EXCEPT ![k] = "absent"]
                /\ cacheTimestamps' = [cacheTimestamps EXCEPT ![k] = NoTime]
                /\ cacheAge' = [cacheAge EXCEPT ![k] = 0]
                /\ procs' = [procs EXCEPT ![p].pc = "done", ![p].result = "true"]
                /\ lastSolo' = [lastSolo EXCEPT ![k] =
                                  IF procs[p].alone THEN "grant" ELSE "none"]
           ELSE /\ procs' = [procs EXCEPT ![p].pc = "done", ![p].result = "false"]
                /\ UNCHANGED <<permissionCache, cacheTimestamps, cacheAge, lastSolo>>
    /\ UNCHANGED <<clock, storeUp, rlVars, toolVars, monVars, gateVars, store, revoked, loopVars, retryVars, svcVars>>

\* revokeToolPermission up to the store's answer to its update
RevokeWrite(p, k, outcome) ==
    /\ ~Active(p)
    /\ outcome = "ok" => storeUp
    /\ store' = IF outcome = "ok" THEN [store EXCEPT ![k] = RevokedRow(@)] ELSE store
    /\ procs' = [Disturb(p, k, FALSE) EXCEPT ![p] =
                    [IdleProc EXCEPT !.op = "revoke", !.pc = "resume", !.key = k,
                                     !.outcome = outcome, !.alone = Quiet(p, k),
                                     !.afterRevoke = (outcome = "ok")]]
    /\ lastSolo' = [lastSolo EXCEPT ![k] = "none"]
    /\ UNCHANGED <<clock, storeUp, rlVars, toolVars, monVars, gateVars, permissionCache, cacheTimestamps, revoked,
                   cacheAge, loopVars, retryVars, svcVars>>

\* a revoke that invalidates the cache whatever the store answered
RevokeResumeAlwaysInvalidate(p) ==
    /\ procs[p].op = "revoke" /\ procs[p].pc = "resume"
    /\ LET k == procs[p].key
       IN  /\ permissionCache' = [permissionCache EXCEPT ![k] = "absent"]
           /\ cacheTimestamps' = [cacheTimestamps EXCEPT ![k] = NoTime]
           /\ cacheAge' = [cacheAge EXCEPT ![k] = 0]
           /\ IF procs[p].outcome = "ok"
              THEN /\ procs' = [procs EXCEPT ![p].pc = "done", ![p].result = "true"]
                   /\ lastSolo' = [lastSolo EXCEPT ![k] =
                                     IF procs[p].alone THEN "revoke" ELSE "none"]
                   /\ revoked' = [revoked EXCEPT ![k] = procs[p].afterRevoke]
              ELSE /\ procs' = [procs EXCEPT ![p].pc = "done", ![p].result = "false"]
                   /\ UNCHANGED <<lastSolo, revoked>>
    /\ UNCHANGED <<clock, storeUp, rlVars, toolVars, monVars, gateVars, store, loopVars, retryVars, svcVars>>

\* revokeToolPermission after its await: invalidate the cache on success
RevokeResume(p) ==
    /\ procs[p].op = "revoke" /\ procs[p].pc = "resume"
    /\ LET k == procs[p].key
       IN  IF procs[p].outcome = "ok"
           THEN /\ permissionCache' = [permissionCache EXCEPT ![k] = "absent"]
                /\ cacheTimestamps' = [cacheTimestamps EXCEPT ![k] = NoTime]
                /\ cacheAge' = [cacheAge EXCEPT ![k] = 0]
                /\ procs' = [procs EXCEPT ![p].pc = "done", ![p].result = "true"]
                /\ lastSolo' = [lastSolo EXCEPT ![k] =
                                  IF procs[p].alone THEN "revoke" ELSE "none"]
                /\ revoked' = [revoked EXCEPT ![k] = procs[p].afterRevoke]
           ELSE /\ procs' = [procs EXCEPT ![p].pc = "done", ![p].result = "false"]
                /\ UNCHANGED <<permissionCache, cacheTimestamps, cacheAge, lastSolo,
                               revoked>>
    /\ UNCHANGED <<clock, storeUp, rlVars, toolVars, monVars, gateVars, store, loopVars, retryVars, svcVars>>

\* time passes: Date.now() advances, and every cached entry grows older
\* (ages are counted up to the TTL)
PermTick ==
    /\ clock < Epoch + MaxPermTicks * TtlStep
    /\ clock' = clock + TtlStep
    /\ cacheAge' = [k \in Keys |->
                      IF permissionCache[k] = "absent" THEN 0
                      ELSE Min(cacheAge[k] + TtlStep, CACHE_TTL_MS)]
    /\ UNCHANGED <<rlVars, toolVars, monVars, gateVars, store, permissionCache, cacheTimestamps, procs,
                   lastSolo, revoked, storeUp, loopVars, retryVars, svcVars>>

\* the wall clock is set back (NTP step, manual change): Date.now() returns
\* less than before, no entry gets younger
PermClockBack ==
    /\ clock > Epoch
    /\ clock' = clock - TtlStep
    /\ UNCHANGED <<rlVars, permVars, toolVars, monVars, gateVars, loopVars, retryVars, svcVars>>

\* the store becomes unreachable
StoreGoesDown ==
    /\ storeUp
    /\ storeUp' = FALSE
    /\ UNCHANGED <<clock, rlVars, toolVars, monVars, gateVars, store, permissionCache, cacheTimestamps, procs,
                   lastSolo, revoked, cacheAge, loopVars, retryVars, svcVars>>

\* the store can be reached again; the calls in flight have no longer run
\* entirely during the outage
StoreComesBack ==
    /\ ~storeUp
    /\ storeUp' = TRUE
    /\ procs' = [q \in Procs |-> [procs[q] EXCEPT !.down = @ /\ ~Active(q)]]
    /\ UNCHANGED <<clock, rlVars, toolVars, monVars, gateVars, store, permissionCache, cacheTimestamps,
                   lastSolo, revoked, cacheAge, loopVars, retryVars, svcVars>>

\* outcomes of a write to the store
StoreOutcomes == {"ok", "error", "throw"}

\* outcomes of the select
QueryOutcomes == StoreOutcomes \cup {"malformed"}

NextPerm ==
    \/ \E p \in Procs, k \in Keys : CheckStart(p, k)
    \/ \E p \in Procs, o \in StoreOutcomes : CheckQuery(p, o)
    \/ \E p \in Procs : CheckResume(p)
    \/ \E p \in Procs, k \in Keys, o \in StoreOutcomes : GrantWrite(p, k, o)
    \/ \E p \in Procs : GrantResume(p)
    \/ \E p \in Procs, k \in Keys, o \in StoreOutcomes : RevokeWrite(p, k, o)
    \/ \E p \in Procs : RevokeResume(p)
    \/ PermTick

\* the caller of the sequential runs
SoloProc == "p1"

\* one call at a time, with outages of the store, answers of another shape
\* and changes of the wall clock
NextCache ==
    \/ \E k \in Keys : CheckStart(SoloProc, k)
    \/ \E o \in QueryOutcomes : CheckQuery(SoloProc, o)
    \/ CheckResume(SoloProc)
    \/ \E k \in Keys, o \in StoreOutcomes : GrantWrite(SoloProc, k, o)
    \/ GrantResume(SoloProc)
    \/ \E k \in Keys, o \in StoreOutcomes : RevokeWrite(SoloProc, k, o)
    \/ RevokeResume(SoloProc)
    \/ PermTick
    \/ PermClockBack
    \/ StoreGoesDown
    \/ StoreComesBack

----------------------------------------------------------------------------
(* Timeout utility: executeWithTimeout races the operation's promise        *)
(* against a timer. Time is the clock, in milliseconds.                     *)

\* setTimeout counts in milliseconds
MsStep == 1

\* the timer callback runs no earlier than timeoutMs after setTimeout, and
\* at most this much later (the event loop was busy)
MaxLateMs == 1

\* number of steps of time in a run
MaxTwTicks == 4

\* timeoutMs of the calls made on their own
TimeoutChoices == {MsStep, 2 * MsStep}

\* what a promise can reject with: an Error, an error of another origin whose
\* name is 'TimeoutError', or the TimeoutError created by the timer
OpErrors == {"Error", "NamedTimeoutError"}

IdleRace == [pc |-> "idle", timeoutMs |-> 0, startedAt |-> NoTime,
             timer |-> "none", op |-> "none", opAt |-> NoTime,
             err |-> "none", outcome |-> "none", settledAt |-> NoTime]

\* executeWithTimeout up to its await: the timer is set, the race begins
NewRace(timeoutMs) ==
    [IdleRace EXCEPT !.pc = "racing", !.timeoutMs = timeoutMs,
                     !.startedAt = clock, !.timer = "pending", !.op = "pending"]

Due(r) == r.startedAt + r.timeoutMs

\* executeWithTimeout called on its own
ExecuteWithTimeout(timeoutMs) ==
    /\ tw.pc \in {"idle", "done"} /\ tool.pc = "idle"
    /\ tw' = NewRace(timeoutMs)
    /\ UNCHANGED <<clock, tool, rlVars, permVars, monVars, gateVars, loopVars, retryVars, svcVars>>

\* the operation settles and, while the race is on, the call leaves its
\* timer pending
OpSettleKeepTimer(kind, e) ==
    /\ tw.op = "pending"
    /\ (kind = "resolved") = (e = "none")
    /\ tw' = IF tw.pc = "racing"
             THEN [tw EXCEPT !.op = kind, !.opAt = clock, !.err = e,
                             !.pc = "done", !.settledAt = clock,
                             !.outcome = IF kind = "resolved" THEN "value" ELSE "error"]
             ELSE [tw EXCEPT !.op = kind, !.opAt = clock]
    /\ UNCHANGED <<clock, tool, rlVars, permVars, monVars, gateVars, loopVars, retryVars, svcVars>>

\* the operation's promise settles; while the race is on the call resumes
\* with the operation's outcome and clears the timer; after the timeout the
\* settlement has no effect on the call
OpSettle(kind, e) ==
    /\ tw.op = "pending"
    /\ (kind = "resolved") = (e = "none")
    /\ tw' = IF tw.pc = "racing"
             THEN [tw EXCEPT !.op = kind, !.opAt = clock, !.err = e,
                             !.pc = "done", !.settledAt = clock,
                             !.timer = "cleared",
                             !.outcome = IF kind = "resolved" THEN "value" ELSE "error"]
             ELSE [tw EXCEPT !.op = kind, !.opAt = clock]
    /\ UNCHANGED <<clock, tool, rlVars, permVars, monVars, gateVars, loopVars, retryVars, svcVars>>

\* a timer callback that also cancels the operation it raced against
TimerFireCancels ==
    /\ tw.timer = "pending"
    /\ clock >= Due(tw)
    /\ tw' = IF tw.pc = "racing"
             THEN [tw EXCEPT !.timer = "fired", !.pc = "done", !.err = "TimeoutError",
                             !.outcome = "timeout", !.settledAt = clock,
                             !.op = "cancelled"]
             ELSE [tw EXCEPT !.timer = "fired"]
    /\ UNCHANGED <<clock, tool, rlVars, permVars, monVars, gateVars, loopVars, retryVars, svcVars>>

\* a timer that may run before its delay has passed
TimerFireEarly ==
    /\ tw.timer = "pending"
    /\ tw' = IF tw.pc = "racing"
             THEN [tw EXCEPT !.timer = "fired", !.pc = "done", !.err = "TimeoutError",
                             !.outcome = "timeout", !.settledAt = clock]
             ELSE [tw EXCEPT !.timer = "fired"]
    /\ UNCHANGED <<clock, tool, rlVars, permVars, monVars, gateVars, loopVars, retryVars, svcVars>>

\* the timer callback runs: the call rejects with a TimeoutError
TimerFire ==
    /\ tw.timer = "pending"
    /\ clock >= Due(tw)
    /\ tw' = IF tw.pc = "racing"
             THEN [tw EXCEPT !.timer = "fired", !.pc = "done", !.err = "TimeoutError",
                             !.outcome = "timeout", !.settledAt = clock]
             ELSE [tw EXCEPT !.timer = "fired"]
    /\ UNCHANGED <<clock, tool, rlVars, permVars, monVars, gateVars, loopVars, retryVars, svcVars>>

\* time passes; a pending timer is late by MaxLateMs at most
TimePasses(step) ==
    /\ clock + step <= Epoch + MaxTwTicks * step
    /\ tw.timer = "pending" => clock + step <= Due(tw) + MaxLateMs
    /\ clock' = clock + step
    /\ UNCHANGED <<tw, tool, rlVars, permVars, monVars, gateVars, loopVars, retryVars, svcVars>>

NextTimeout ==
    \/ \E t \in TimeoutChoices : ExecuteWithTimeout(t)
    \/ OpSettle("resolved", "none")
    \/ \E e \in OpErrors : OpSettle("rejected", e)
    \/ TimerFire
    \/ TimePasses(MsStep)

----------------------------------------------------------------------------
(* Tool adapters: executeAirtableTool, executeGoogleTool (MCP),             *)
(* executeGoogleAPITool, executeGitHubTool, with auditLog and the metrics.  *)

\* 30 seconds
TOOL_TIMEOUT_MS == 30000

\* one step of time for a tool invocation: half the deadline
ToolStep == TOOL_TIMEOUT_MS \div 2

Adapters == {"airtable", "google", "googleapi", "github"}

\* the adapters whose catch block calls isTimeoutError
ClassifyingAdapters == {"airtable", "google", "github"}

\* isTimeoutError: error instanceof TimeoutError || error.name === 'TimeoutError'
IsTimeoutError(e) == e \in {"TimeoutError", "NamedTimeoutError"}

\* the arguments of an auditLog call
Event(type, success, durationMs) ==
    [type |-> type, success |-> success, durationMs |-> durationMs]

\* a recordMetric call
Metric(name, success, value) == [name |-> name, success |-> success, value |-> value]

NoMetric == Metric("none", "none", 0)

IdleTool == [pc |-> "idle", adapter |-> "none", hasUser |-> FALSE,
             startTime |-> NoTime, permission |-> "none", opStarted |-> FALSE,
             caught |-> "none", todo |-> <<>>, denied |-> FALSE,
             next |-> NoMetric,
             audits |-> <<>>, metrics |-> <<>>, result |-> "none"]

\* the catch block of an adapter, entered with error e: the audit calls it
\* awaits, then the metric it records and what it throws
CatchBlock(t, e) ==
    LET durationMs == clock - t.startTime
    IN  IF t.adapter \in ClassifyingAdapters /\ IsTimeoutError(e)
        THEN [t EXCEPT !.pc = "audit", !.caught = e,
                       !.todo = IF t.hasUser
                                THEN <<Event("tool_timeout", "none", NoTime)>>
                                ELSE <<>>,
                       !.next = Metric("tool_timeouts", "none", 1)]
        ELSE [t EXCEPT !.pc = "audit", !.caught = e,
                       !.todo = IF t.hasUser
                                THEN <<Event("tool_error", "none", NoTime),
                                       Event("tool_execution", "false", durationMs)>>
                                ELSE <<>>,
                       !.next = Metric("tool_execution_duration", "false", durationMs)]

\* an adapter up to its executeWithTimeout: client check, permission check
\* when a userId is given, then the operation is started under the deadline
ToolInvoke(adapter, hasUser, ready, allowed) ==
    /\ tool.pc \in {"idle", "done"}
    /\ LET t == [IdleTool EXCEPT !.adapter = adapter, !.hasUser = hasUser,
                                 !.startTime = clock,
                                 !.permission = IF ready /\ hasUser
                                                THEN BoolStr(allowed) ELSE "none"]
       IN  IF ~ready
           THEN tool' = CatchBlock(t, "NotInitialized") /\ UNCHANGED tw
           ELSE IF hasUser /\ ~allowed
           THEN /\ tool' = [t EXCEPT !.pc = "audit",
                                     !.todo = <<Event("permission_denied", "none", NoTime)>>,
                                     !.denied = TRUE]
                /\ UNCHANGED tw
           ELSE /\ tool' = [t EXCEPT !.pc = "exec", !.opStarted = TRUE]
                /\ tw' = NewRace(TOOL_TIMEOUT_MS)
    /\ UNCHANGED <<clock, rlVars, permVars, monVars, gateVars, loopVars, retryVars, svcVars>>

\* the adapter after executeWithTimeout settled: success path or catch block
ToolResume ==
    /\ tool.pc = "exec" /\ tw.pc = "done"
    /\ tool' = IF tw.outcome = "value"
               THEN LET durationMs == clock - tool.startTime
                    IN  [tool EXCEPT !.pc = "audit",
                            !.todo = IF tool.hasUser
                                     THEN <<Event("tool_execution", "true", durationMs)>>
                                     ELSE <<>>,
                            !.next = Metric("tool_execution_duration", "true", durationMs)]
               ELSE CatchBlock(tool, tw.err)
    /\ UNCHANGED <<clock, tw, rlVars, permVars, monVars, gateVars, loopVars, retryVars, svcVars>>

\* an auditLog whose catch block is missing: the client's exception reaches
\* the adapter
AuditLogRethrow(outcome) ==
    /\ tool.pc = "audit" /\ tool.todo # <<>>
    /\ tool' = [tool EXCEPT
                  !.todo = Tail(@),
                  !.audits = Append(@, [event |-> Head(tool.todo),
                                        outcome |-> outcome,
                                        stored |-> outcome = "ok",
                                        logged |-> outcome = "error",
                                        settled |-> IF outcome = "throw"
                                                    THEN "rejected" ELSE "resolved"])]
    /\ UNCHANGED <<clock, tw, rlVars, permVars, monVars, gateVars, loopVars, retryVars, svcVars>>

\* auditLog, awaited by the adapter: the insert succeeds, returns an error or
\* throws; a failure is logged with logger.error and the call resolves
AuditLog(outcome) ==
    /\ tool.pc = "audit" /\ tool.todo # <<>>
    /\ tool' = [tool EXCEPT
                  !.todo = Tail(@),
                  !.audits = Append(@, [event |-> Head(tool.todo),
                                        outcome |-> outcome,
                                        stored |-> outcome = "ok",
                                        logged |-> outcome # "ok",
                                        settled |-> "resolved"])]
    /\ UNCHANGED <<clock, tw, rlVars, permVars, monVars, gateVars, loopVars, retryVars, svcVars>>

\* the adapter after its audit calls: the permission error is thrown into the
\* catch block, or the metric is recorded and the adapter returns or throws
ToolContinue ==
    /\ tool.pc = "audit" /\ tool.todo = <<>>
    /\ tool' = IF tool.denied /\ tool.caught = "none"
               THEN CatchBlock(tool, "PermissionDenied")
               ELSE [tool EXCEPT !.pc = "done",
                                 !.metrics = Append(@, tool.next),
                                 !.next = NoMetric,
                                 !.result = IF tool.caught = "none"
                                            THEN "value" ELSE "thrown"]
    /\ UNCHANGED <<clock, tw, rlVars, permVars, monVars, gateVars, loopVars, retryVars, svcVars>>

NextTool ==
    \/ \E a \in Adapters, hasUser \in BOOLEAN, ready \in BOOLEAN, allowed \in BOOLEAN :
          ToolInvoke(a, hasUser, ready, allowed)
    \/ OpSettle("resolved", "none")
    \/ \E e \in OpErrors : OpSettle("rejected", e)
    \/ TimerFire
    \/ TimePasses(ToolStep)
    \/ ToolResume
    \/ \E o \in StoreOutcomes : AuditLog(o)
    \/ ToolContinue

InitTool == tw = IdleRace /\ tool = IdleTool

----------------------------------------------------------------------------
(* Monitoring service: recordMetric, the 60 s aggregateMetrics interval and *)
(* triggerAlert with its cooldown.                                          *)

\* 5 minutes
METRIC_RETENTION_MS == 5 * 60 * 1000

\* 5 minutes cooldown
ALERT_COOLDOWN_MS == 5 * 60 * 1000

\* setInterval(..., 60000), and the one-minute window of calculateStats
INTERVAL_MS == 60000

\* ALERT_THRESHOLDS; the error rate 0.1 is kept as one in ten
ERROR_RATE_ONE_IN == 10
RATE_LIMIT_VIOLATIONS_WARNING == 50
AUTH_FAILURES_WARNING == 10
TOOL_TIMEOUT_WARNING == 5

\* number of interval ticks in a run
MaxMonTicks == 6

\* number of recordMetric bursts in a run: one for every two ticks
MaxRecords == MaxMonTicks \div 2

MetricNames == {"messages_received", "errors", "rate_limit_violations",
                "auth_failures", "tool_timeouts"}

AlertTypes == {"high_error_rate", "high_rate_limit_violations",
               "high_auth_failures", "high_tool_timeouts"}

\* sizes of the bursts of samples recorded at one instant: at a threshold
\* and one above it
BurstSizes(name) ==
    CASE name = "messages_received" -> {ERROR_RATE_ONE_IN}
      [] name = "errors" -> {1, 2}
      [] name = "rate_limit_violations" ->
            {RATE_LIMIT_VIOLATIONS_WARNING, RATE_LIMIT_VIOLATIONS_WARNING + 1}
      [] name = "auth_failures" -> {AUTH_FAILURES_WARNING, AUTH_FAILURES_WARNING + 1}
      [] name = "tool_timeouts" -> {TOOL_TIMEOUT_WARNING, TOOL_TIMEOUT_WARNING + 1}

\* n data points pushed at the same Date.now()
DataPoints(timestamp, n) == [timestamp |-> timestamp, n |-> n]

RECURSIVE Count(_)
\* data.length
Count(data) == IF data = <<>> THEN 0 ELSE Head(data).n + Count(Tail(data))

InWindow(dp, cutoffTime) == dp.timestamp >= cutoffTime

\* cleanupOldMetrics: keep dp.timestamp >= Date.now() - METRIC_RETENTION_MS
CleanupOldMetrics(metricData, now) ==
    SelectSeq(metricData, LAMBDA dp : InWindow(dp, now - METRIC_RETENTION_MS))

\* a read that returns the stored series as it is
GetMetricDataUnfiltered(metricData, timeWindowMs, now) == metricData

\* getMetricData: keep dp.timestamp >= Date.now() - timeWindowMs
GetMetricData(metricData, timeWindowMs, now) ==
    SelectSeq(metricData, LAMBDA dp : InWindow(dp, now - timeWindowMs))

\* calculateStats(metricName, timeWindowMs).count
StatsCount(metricName, timeWindowMs, now) ==
    Count(GetMetricData(metrics[metricName], timeWindowMs, now))

TotalRecorded ==
    Len(recorded["messages_received"]) + Len(recorded["errors"])
      + Len(recorded["rate_limit_violations"]) + Len(recorded["auth_failures"])
      + Len(recorded["tool_timeouts"])

\* recordMetric, called n times in a row: push, then cleanupOldMetrics. The
\* message handler counts 'errors' only in the catch block of an invocation
\* that counted 'messages_received' first.
RecordMetric(metricName, n) ==
    /\ TotalRecorded < MaxRecords
    /\ metricName = "errors" => recorded["messages_received"] # <<>>
    /\ metrics' = [metrics EXCEPT ![metricName] =
                      CleanupOldMetrics(Append(@, DataPoints(clock, n)), clock)]
    /\ recorded' = [recorded EXCEPT ![metricName] = Append(@, DataPoints(clock, n))]
    /\ UNCHANGED <<clock, alertCooldowns, alerts, alertAudits, lastStats,
                   rlVars, permVars, toolVars, gateVars, loopVars, retryVars, svcVars>>

\* errorRate > ERROR_RATE_CRITICAL, with errorRate = 0 when there were no requests
ErrorRateHigh(errorCount, totalRequests) ==
    IF totalRequests > 0 THEN ERROR_RATE_ONE_IN * errorCount > totalRequests ELSE FALSE

\* aggregateMetrics: the counts it reads and the alerts it asks for
Stats(now) ==
    LET errorCount == StatsCount("errors", METRIC_RETENTION_MS, now)
        totalRequests == StatsCount("messages_received", METRIC_RETENTION_MS, now)
        rateLimitViolations == StatsCount("rate_limit_violations", INTERVAL_MS, now)
        authFailures == StatsCount("auth_failures", INTERVAL_MS, now)
        toolTimeouts == StatsCount("tool_timeouts", METRIC_RETENTION_MS, now)
    IN  [at |-> now,
         errorCount |-> errorCount, totalRequests |-> totalRequests,
         rateLimitViolations |-> rateLimitViolations,
         authFailures |-> authFailures, toolTimeouts |-> toolTimeouts,
         triggered |->
            {a \in AlertTypes :
                \/ a = "high_error_rate" /\ errorCount > 0
                      /\ ErrorRateHigh(errorCount, totalRequests)
                \/ a = "high_rate_limit_violations"
                      /\ rateLimitViolations > RATE_LIMIT_VIOLATIONS_WARNING
                \/ a = "high_auth_failures" /\ authFailures > AUTH_FAILURES_WARNING
                \/ a = "high_tool_timeouts" /\ toolTimeouts > TOOL_TIMEOUT_WARNING}]

\* a cooldown that never holds an alert back
InCooldownNever(lastAlert, now) == FALSE

\* triggerAlert: lastAlert && now - lastAlert < ALERT_COOLDOWN_MS
InCooldown(lastAlert, now) ==
    /\ lastAlert # NoTime /\ lastAlert # 0
    /\ now - lastAlert < ALERT_COOLDOWN_MS

\* the interval fires 60 s later: aggregateMetrics, and triggerAlert for every
\* alert it asks for (cooldown check, cooldown update, auditLog('error'))
AggregateMetrics ==
    /\ svc.timers # {}
    /\ clock < Epoch + MaxMonTicks * INTERVAL_MS
    /\ clock' = clock + INTERVAL_MS
    /\ LET now == clock + INTERVAL_MS
           stats == Stats(now)
           Fires(a) == a \in stats.triggered /\ ~InCooldown(alertCooldowns[a], now)
       IN  /\ lastStats' = stats
           /\ alertCooldowns' = [a \in AlertTypes |->
                                    IF Fires(a) THEN now ELSE alertCooldowns[a]]
           /\ alerts' = [a \in AlertTypes |->
                            IF Fires(a) THEN Append(alerts[a], now) ELSE alerts[a]]
           /\ alertAudits' = [a \in AlertTypes |->
                                 IF Fires(a) THEN alertAudits[a] + 1 ELSE alertAudits[a]]
    /\ UNCHANGED <<metrics, recorded, rlVars, permVars, toolVars, gateVars, loopVars, retryVars, svcVars>>

NextMon ==
    \/ \E name \in MetricNames : \E n \in BurstSizes(name) : RecordMetric(name, n)
    \/ AggregateMetrics

NoStats == [at |-> NoTime, errorCount |-> 0, totalRequests |-> 0,
            rateLimitViolations |-> 0, authFailures |-> 0, toolTimeouts |-> 0,
            triggered |-> {}]

InitMon ==
    /\ metrics = [name \in MetricNames |-> <<>>]
    /\ alertCooldowns = [a \in AlertTypes |-> NoTime]
    /\ alerts = [a \in AlertTypes |-> <<>>]
    /\ alertAudits = [a \in AlertTypes |-> 0]
    /\ recorded = [name \in MetricNames |-> <<>>]
    /\ lastStats = NoStats

----------------------------------------------------------------------------
(* Content gate: validateUserInput over texts of a few characters.          *)

\* MAX_MESSAGE_LENGTH
MAX_MESSAGE_LENGTH == 4000

\* longest text over the small alphabet
MaxTextLen == 3

\* the null byte
NUL == "\\0"

\* a letter, a semicolon, a space and the null byte
Alphabet == {"a", ";", " ", NUL}

\* the prompt-injection marker [INST]
Marker == <<"[", "I", "N", "S", "T", "]">>

\* every text of up to MaxTextLen characters, and some texts around [INST]
Texts ==
    UNION {[1..k -> Alphabet] : k \in 0..MaxTextLen}
      \cup {Marker, <<"[", "i", "N", "S", "T", "]">>,
            <<" ">> \o Marker, Marker \o <<";", "a">>, <<"[", "I", "N", "S", "T">>,
            <<NUL>> \o Marker}

\* the maxLength argument: the default, and one that short texts exceed
MaxLengths == {MAX_MESSAGE_LENGTH, MaxTextLen - 1}

\* [a-zA-Z]
IsLetter(c) == c \in {"a", "i", "I", "N", "S", "T"}

\* \s, and what trim() removes
IsSpace(c) == c = " "

\* the i flag: case folding
Fold(c) == IF c = "i" THEN "I" ELSE c

\* DANGEROUS_CHARS.some((char) => sanitized.includes(char))
HasNull(text) == \E i \in 1..Len(text) : text[i] = NUL

\* a replacement that removes nothing
KeepNulls(text) == text

\* sanitized.replace(new RegExp(char, 'g'), '')
RemoveNulls(text) == SelectSeq(text, LAMBDA c : c # NUL)

RECURSIVE SkipSpaces(_, _)
\* \s*: the first position at or after p that holds no whitespace
SkipSpaces(text, p) ==
    IF p <= Len(text) /\ IsSpace(text[p]) THEN SkipSpaces(text, p + 1) ELSE p

\* /;\s*[a-zA-Z]/ matched at position p: the position of its last character,
\* or 0 when it does not match there
MatchEnd(text, p) ==
    IF text[p] = ";"
    THEN LET q == SkipSpaces(text, p + 1)
         IN  IF q <= Len(text) /\ IsLetter(text[q]) THEN q ELSE 0
    ELSE 0

\* pattern.test(sanitized) of a pattern with the g flag: the search starts at
\* lastIndex; a match leaves lastIndex after it, a failure resets it to 0
Test(text, from) ==
    LET starts == {p \in (from + 1)..Len(text) : MatchEnd(text, p) # 0}
    IN  IF starts = {}
        THEN [found |-> FALSE, lastIndex |-> 0]
        ELSE LET first == CHOOSE p \in starts : \A r \in starts : p <= r
             IN  [found |-> TRUE, lastIndex |-> MatchEnd(text, first)]

\* /\[INST\]/i.test(sanitized): no g flag, so no position is kept
PromptInjectionFound(text) ==
    \E p \in 1..Len(text) :
        /\ p + Len(Marker) - 1 <= Len(text)
        /\ \A k \in 1..Len(Marker) : Fold(text[p + k - 1]) = Marker[k]

\* sanitized.substring(0, maxLength)
Substring(text, maxLength) == SubSeq(text, 1, Min(Len(text), maxLength))

RECURSIVE TrimStart(_)
TrimStart(text) ==
    IF text # <<>> /\ IsSpace(Head(text)) THEN TrimStart(Tail(text)) ELSE text

RECURSIVE TrimEnd(_)
TrimEnd(text) ==
    IF text # <<>> /\ IsSpace(text[Len(text)])
    THEN TrimEnd(SubSeq(text, 1, Len(text) - 1))
    ELSE text

\* sanitized.trim()
Trim(text) == TrimEnd(TrimStart(text))

\* validateUserInput(message, maxLength) with the pattern object's lastIndex
\* as it stands before the call; violations in the order they are pushed
ValidateUserInput(message, maxLength, from) ==
    LET nulls == HasNull(message)
        s1 == IF nulls THEN RemoveNulls(message) ELSE message
        tested == Test(s1, from)
        prompt == PromptInjectionFound(s1)
        long == Len(s1) > maxLength
        s2 == IF long THEN Substring(s1, maxLength) ELSE s1
        sanitized == Trim(s2)
        violations ==
            (IF nulls THEN <<"Contains null bytes or dangerous characters">> ELSE <<>>)
              \o (IF tested.found
                  THEN <<"Contains potential command injection patterns">> ELSE <<>>)
              \o (IF prompt
                  THEN <<"Contains potential prompt injection patterns">> ELSE <<>>)
              \o (IF long THEN <<"Message exceeds maximum length">> ELSE <<>>)
              \o (IF sanitized = <<>>
                  THEN <<"Message is empty after sanitization">> ELSE <<>>)
    IN  [isValid |-> violations = <<>>, sanitized |-> sanitized,
         violations |-> violations, lastIndex |-> tested.lastIndex]

NoCall == [message |-> <<>>, maxLength |-> 0, isValid |-> FALSE,
           sanitized |-> <<>>, violations |-> <<>>]

\* one call of validateUserInput
Validate(message, maxLength) ==
    LET result == ValidateUserInput(message, maxLength, lastIndex)
    IN  /\ call' = [message |-> message, maxLength |-> maxLength,
                    isValid |-> result.isValid, sanitized |-> result.sanitized,
                    violations |-> result.violations]
        /\ lastIndex' = result.lastIndex
        /\ UNCHANGED <<clock, hd, rlVars, permVars, toolVars, monVars, loopVars, retryVars, svcVars>>

NextValidate ==
    \E message \in Texts : \E maxLength \in MaxLengths : Validate(message, maxLength)


----------------------------------------------------------------------------
(* One update on its way through rateLimitMiddleware, authMiddleware and    *)
(* handleMessageWithTools, with the audit store behind every audit write.   *)

\* what the audit store does with an insert that it answers
AuditOutcomes == {"ok", "error", "throws"}

\* the text messages that arrive: the shorter texts and those around [INST]
Messages == {t \in Texts : Len(t) # MaxTextLen}

Ev(kind, name) == [kind |-> kind, name |-> name]

IdleUpdate == [pc |-> "idle", message |-> <<>>, logged |-> 0, after |-> "none",
               reply |-> "none", events |-> <<>>, isValid |-> FALSE,
               sanitized |-> <<>>, saved |-> <<>>, engine |-> <<>>,
               user |-> "unknown"]

\* await auditLog(eventType, ...): the insert is issued and the caller waits
CallAudit(h, eventType, after) ==
    [h EXCEPT !.pc = "audit", !.after = after,
              !.events = Append(@, Ev("audit", eventType))]

\* monitoringService.incrementCounter(name), then await ctx.reply(...)
CountThenReply(h, name, reply) ==
    [h EXCEPT !.pc = "reply", !.reply = reply,
              !.events = Append(@, Ev("metric", name))]

\* an update with a text message from an identified caller arrives
Receive(message) ==
    /\ hd.pc \in {"idle", "done"}
    /\ hd' = [IdleUpdate EXCEPT !.pc = "rate_limit", !.message = message]
    /\ UNCHANGED <<clock, lastIndex, call, rlVars, permVars, toolVars, monVars, loopVars, retryVars, svcVars>>

\* rateLimitMiddleware: the global or the caller's bucket rejects, or next()
RateLimit(decision) ==
    /\ hd.pc = "rate_limit"
    /\ hd' = IF decision = "allowed"
             THEN [hd EXCEPT !.pc = "auth"]
             ELSE CallAudit(hd, "rate_limit_exceeded", "rate_limited")
    /\ UNCHANGED <<clock, lastIndex, call, rlVars, permVars, toolVars, monVars, loopVars, retryVars, svcVars>>

\* what getVerifiedUser does: an active row, null, or a DatabaseError
AuthOutcomes == {"verified", "none", "throws"}

\* a middleware whose catch block lets the update through
AuthFailOpen(outcome) ==
    /\ hd.pc = "auth"
    /\ hd' = IF outcome = "none"
             THEN CallAudit([hd EXCEPT !.user = outcome], "auth_failure", "auth_failed")
             ELSE CallAudit([hd EXCEPT !.user = outcome], "auth_success", "authenticated")
    /\ UNCHANGED <<clock, lastIndex, call, rlVars, permVars, toolVars, monVars, loopVars, retryVars, svcVars>>

\* authMiddleware up to its first audit write: getVerifiedUser finds the
\* caller (updateLastActive never throws), finds nobody, or throws into the
\* catch block, which logs and replies
Auth(outcome) ==
    /\ hd.pc = "auth"
    /\ hd' = CASE outcome = "verified" ->
                    CallAudit([hd EXCEPT !.user = outcome], "auth_success", "authenticated")
               [] outcome = "none" ->
                    CallAudit([hd EXCEPT !.user = outcome], "auth_failure", "auth_failed")
               [] outcome = "throws" ->
                    [hd EXCEPT !.user = outcome, !.pc = "reply", !.reply = "verify_error"]
    /\ UNCHANGED <<clock, lastIndex, call, rlVars, permVars, toolVars, monVars, loopVars, retryVars, svcVars>>

\* auditLog's own logger.error when the insert returned an error or threw
Logged(h, outcome) ==
    IF outcome = "ok" THEN h ELSE [h EXCEPT !.logged = @ + 1]

\* handleMessageWithTools after auditMessageReceived: count the message,
\* validate it, and either start the rejection or go on with the sanitized text
HandleMessage(h) ==
    LET counted == [h EXCEPT !.events = Append(@, Ev("metric", "messages_received"))]
        result == ValidateUserInput(h.message, MAX_MESSAGE_LENGTH, lastIndex)
        checked == [counted EXCEPT !.isValid = result.isValid,
                                   !.sanitized = result.sanitized]
    IN  /\ lastIndex' = result.lastIndex
        /\ call' = [message |-> h.message, maxLength |-> MAX_MESSAGE_LENGTH,
                    isValid |-> result.isValid, sanitized |-> result.sanitized,
                    violations |-> result.violations]
        /\ hd' = IF ~result.isValid
                 THEN CallAudit(checked, "validation_failure", "invalid")
                 ELSE [checked EXCEPT !.pc = "save"]

\* the awaited auditLog returns (it never throws) once the store answered
\* the insert, with a row, with an error or by throwing
AuditSettles(outcome) ==
    /\ hd.pc = "audit"
    /\ LET h == Logged(hd, outcome)
       IN  CASE h.after = "rate_limited" ->
                  /\ hd' = CountThenReply(h, "rate_limit_violations", "rate_limit")
                  /\ UNCHANGED <<lastIndex, call>>
             [] h.after = "auth_failed" ->
                  /\ hd' = CountThenReply(h, "auth_failures", "unauthorized")
                  /\ UNCHANGED <<lastIndex, call>>
             [] h.after = "authenticated" ->
                  /\ hd' = LET n == [h EXCEPT !.events =
                                         Append(@, Ev("next", "authMiddleware"))]
                           IN  IF h.message = <<>>
                               THEN [n EXCEPT !.pc = "done"]
                               ELSE CallAudit(n, "message_received", "received")
                  /\ UNCHANGED <<lastIndex, call>>
             [] h.after = "received" -> HandleMessage(h)
             [] h.after = "invalid" ->
                  /\ hd' = CountThenReply(h, "validation_failures", "invalid")
                  /\ UNCHANGED <<lastIndex, call>>
    /\ UNCHANGED <<clock, rlVars, permVars, toolVars, monVars, loopVars, retryVars, svcVars>>

\* the store never answers the insert: the await in auditLog never returns
\* and the update stays where it is
AuditNeverAnswers ==
    /\ hd.pc = "audit"
    /\ hd' = [hd EXCEPT !.pc = "waiting"]
    /\ UNCHANGED <<clock, lastIndex, call, rlVars, permVars, toolVars, monVars, loopVars, retryVars, svcVars>>

\* the catch block of handleMessageWithTools
CatchProcessingError(h) == CountThenReply(h, "errors", "error")

\* a handler that stores the message as it was received
SaveMessageRaw(outcome) ==
    /\ hd.pc = "save"
    /\ hd' = IF outcome = "ok"
             THEN [hd EXCEPT !.pc = "engine", !.saved = Append(@, hd.message)]
             ELSE CatchProcessingError(hd)
    /\ UNCHANGED <<clock, lastIndex, call, rlVars, permVars, toolVars, monVars, loopVars, retryVars, svcVars>>

\* await saveMessage({... content: sanitizedMessage})
SaveMessage(outcome) ==
    /\ hd.pc = "save"
    /\ hd' = IF outcome = "ok"
             THEN [hd EXCEPT !.pc = "engine", !.saved = Append(@, hd.sanitized)]
             ELSE CatchProcessingError(hd)
    /\ UNCHANGED <<clock, lastIndex, call, rlVars, permVars, toolVars, monVars, loopVars, retryVars, svcVars>>

\* client.messages.create with the sanitized message as the last user turn
CallEngine(outcome) ==
    /\ hd.pc = "engine"
    /\ hd' = IF outcome = "ok"
             THEN [hd EXCEPT !.pc = "reply", !.reply = "answer",
                             !.engine = Append(@, hd.sanitized)]
             ELSE CatchProcessingError([hd EXCEPT !.engine = Append(@, hd.sanitized)])
    /\ UNCHANGED <<clock, lastIndex, call, rlVars, permVars, toolVars, monVars, loopVars, retryVars, svcVars>>

\* await ctx.reply(...)
SendReply ==
    /\ hd.pc = "reply"
    /\ hd' = [hd EXCEPT !.pc = "done", !.events = Append(@, Ev("reply", hd.reply))]
    /\ UNCHANGED <<clock, lastIndex, call, rlVars, permVars, toolVars, monVars, loopVars, retryVars, svcVars>>

NextHandler ==
    \/ \E message \in Messages : Receive(message)
    \/ \E decision \in {"allowed", "global", "user"} : RateLimit(decision)
    \/ \E outcome \in AuthOutcomes : Auth(outcome)
    \/ \E outcome \in AuditOutcomes : AuditSettles(outcome)
    \/ AuditNeverAnswers
    \/ \E outcome \in {"ok", "throws"} : SaveMessage(outcome)
    \/ \E outcome \in {"ok", "throws"} : CallEngine(outcome)
    \/ SendReply

\* module load: the pattern objects are fresh and no update is in progress
InitValidate == lastIndex = 0 /\ call = NoCall /\ hd = IdleUpdate

----------------------------------------------------------------------------
(* The tool-use loop of handleMessageWithTools.                             *)

\* const maxIterations = 7
maxIterations == 7

\* tool_use blocks in one response of the engine, at most
MaxToolUses == 2

IdleLoop == [pc |-> "idle", iterations |-> 0, executions |-> 0, pending |-> 0,
             stop_reason |-> "none", reply |-> "none"]

\* the first client.messages.create is issued
LoopStart ==
    /\ lp.pc \in {"idle", "done"}
    /\ lp' = [IdleLoop EXCEPT !.pc = "engine"]
    /\ UNCHANGED <<clock, rlVars, permVars, toolVars, monVars, gateVars, retryVars, svcVars>>

\* a response arrives and the while condition is evaluated: another round
\* over the response's tool_use blocks, or the final text (or the fallback
\* when there is none) is sent
EngineResponds(stop_reason, toolUses, hasText) ==
    /\ lp.pc = "engine"
    /\ (stop_reason = "tool_use") = (toolUses > 0)
    /\ lp' = IF stop_reason = "tool_use" /\ lp.iterations < maxIterations
             THEN [lp EXCEPT !.pc = "tools", !.stop_reason = stop_reason,
                             !.iterations = @ + 1, !.pending = toolUses]
             ELSE [lp EXCEPT !.pc = "done", !.stop_reason = stop_reason,
                             !.reply = IF hasText THEN "answer" ELSE "fallback"]
    /\ UNCHANGED <<clock, rlVars, permVars, toolVars, monVars, gateVars, retryVars, svcVars>>

\* retryWithBackoff gave up: the handler's catch block sends the error reply
EngineThrows ==
    /\ lp.pc = "engine"
    /\ lp' = [lp EXCEPT !.pc = "done", !.reply = "error"]
    /\ UNCHANGED <<clock, rlVars, permVars, toolVars, monVars, gateVars, retryVars, svcVars>>

\* for (const toolUse of toolUses): executeAirtableTool returns or throws,
\* and either way a tool_result is collected
ExecuteTool(outcome) ==
    /\ lp.pc = "tools" /\ lp.pending > 0
    /\ lp' = [lp EXCEPT !.executions = @ + 1, !.pending = @ - 1]
    /\ UNCHANGED <<clock, rlVars, permVars, toolVars, monVars, gateVars, retryVars, svcVars>>

\* the results are pushed and the conversation continues
ContinueConversation ==
    /\ lp.pc = "tools" /\ lp.pending = 0
    /\ lp' = [lp EXCEPT !.pc = "engine"]
    /\ UNCHANGED <<clock, rlVars, permVars, toolVars, monVars, gateVars, retryVars, svcVars>>

NextLoop ==
    \/ LoopStart
    \/ \E toolUses \in 1..MaxToolUses, hasText \in BOOLEAN :
          EngineResponds("tool_use", toolUses, hasText)
    \/ \E hasText \in BOOLEAN : EngineResponds("end_turn", 0, hasText)
    \/ EngineThrows
    \/ \E outcome \in {"ok", "throws"} : ExecuteTool(outcome)
    \/ ContinueConversation

InitLoop == lp = IdleLoop

----------------------------------------------------------------------------
(* Retry helpers: executeWithTimeoutAndRetry and retryWithBackoff.          *)

\* largest maxRetries argument
MaxRetriesArg == 4

\* retryDelayMs: number = 1000
RETRY_DELAY_MS == 1000

\* initialDelay = 1000
INITIAL_DELAY == 1000

\* backoffMultiplier = 2
BACKOFF_MULTIPLIER == 2

\* maxDelay = 10000
MAX_DELAY == 10000

\* the maxDelay option: the default, and one that the second delay exceeds
MaxDelays == {MAX_DELAY, INITIAL_DELAY + INITIAL_DELAY \div 2}

\* how an attempt ends: fn's value, the TimeoutError of executeWithTimeout,
\* an Error of fn, or an error of fn that is only named 'TimeoutError'
AttemptOutcomes == {"value", "TimeoutError", "Error", "NamedTimeoutError"}

IdleRetry == [helper |-> "none", pc |-> "idle", maxRetries |-> 0, attempt |-> 0,
              calls |-> 0, errors |-> <<>>, waits |-> <<>>, delay |-> 0,
              maxDelay |-> 0, outcome |-> "none", error |-> "none"]

\* executeWithTimeoutAndRetry(fn, timeoutMs, maxRetries): attempt = 0, fn()
TimeoutRetryStart(maxRetries) ==
    /\ rt.pc \in {"idle", "done"}
    /\ rt' = [IdleRetry EXCEPT !.helper = "executeWithTimeoutAndRetry",
                               !.pc = "attempt", !.maxRetries = maxRetries,
                               !.attempt = 0, !.calls = 1,
                               !.delay = RETRY_DELAY_MS]
    /\ UNCHANGED <<clock, rlVars, permVars, toolVars, monVars, gateVars, loopVars, svcVars>>

\* a helper that retries after any error
TimeoutRetryAttemptEndsRetryAll(o) ==
    /\ rt.helper = "executeWithTimeoutAndRetry" /\ rt.pc = "attempt"
    /\ rt' = IF o = "value"
             THEN [rt EXCEPT !.pc = "done", !.outcome = "value"]
             ELSE IF rt.attempt < rt.maxRetries
                  THEN [rt EXCEPT !.pc = "sleep", !.errors = Append(@, o),
                                  !.error = o, !.waits = Append(@, rt.delay)]
                  ELSE [rt EXCEPT !.pc = "done", !.errors = Append(@, o),
                                  !.error = o, !.outcome = "thrown",
                                  !.attempt = @ + 1]
    /\ UNCHANGED <<clock, rlVars, permVars, toolVars, monVars, gateVars, loopVars, svcVars>>

\* the awaited executeWithTimeout settles: return the value; after a
\* TimeoutError (instanceof) wait and go on unless this was the last attempt,
\* then throw lastError; rethrow anything else
TimeoutRetryAttemptEnds(o) ==
    /\ rt.helper = "executeWithTimeoutAndRetry" /\ rt.pc = "attempt"
    /\ rt' = IF o = "value"
             THEN [rt EXCEPT !.pc = "done", !.outcome = "value"]
             ELSE IF o = "TimeoutError"
                  THEN IF rt.attempt < rt.maxRetries
                       THEN [rt EXCEPT !.pc = "sleep", !.errors = Append(@, o),
                                       !.error = o, !.waits = Append(@, rt.delay)]
                       ELSE [rt EXCEPT !.pc = "done", !.errors = Append(@, o),
                                       !.error = o, !.outcome = "thrown",
                                       !.attempt = @ + 1]
                  ELSE [rt EXCEPT !.pc = "done", !.errors = Append(@, o),
                                  !.error = o, !.outcome = "thrown"]
    /\ UNCHANGED <<clock, rlVars, permVars, toolVars, monVars, gateVars, loopVars, svcVars>>

\* retryWithBackoff(fn, {maxRetries, maxDelay}): attempt = 1; the loop body
\* runs while attempt <= maxRetries, and after the loop lastError is thrown
BackoffStart(maxRetries, maxDelay) ==
    /\ rt.pc \in {"idle", "done"}
    /\ rt' = IF 1 <= maxRetries
             THEN [IdleRetry EXCEPT !.helper = "retryWithBackoff", !.pc = "attempt",
                                    !.maxRetries = maxRetries, !.attempt = 1,
                                    !.calls = 1, !.delay = INITIAL_DELAY,
                                    !.maxDelay = maxDelay]
             ELSE [IdleRetry EXCEPT !.helper = "retryWithBackoff", !.pc = "done",
                                    !.maxRetries = maxRetries, !.attempt = 1,
                                    !.delay = INITIAL_DELAY, !.maxDelay = maxDelay,
                                    !.outcome = "thrown", !.error = "undefined"]
    /\ UNCHANGED <<clock, rlVars, permVars, toolVars, monVars, gateVars, loopVars, svcVars>>

\* the awaited fn() settles: return the value; on an error break when
\* attempt === maxRetries, else sleep(delay) and multiply the delay
BackoffAttemptEnds(o) ==
    /\ rt.helper = "retryWithBackoff" /\ rt.pc = "attempt"
    /\ rt' = IF o = "value"
             THEN [rt EXCEPT !.pc = "done", !.outcome = "value"]
             ELSE IF rt.attempt = rt.maxRetries
                  THEN [rt EXCEPT !.pc = "done", !.errors = Append(@, o),
                                  !.error = o, !.outcome = "thrown"]
                  ELSE [rt EXCEPT !.pc = "sleep", !.errors = Append(@, o),
                                  !.error = o, !.waits = Append(@, rt.delay),
                                  !.delay = Min(rt.delay * BACKOFF_MULTIPLIER,
                                                rt.maxDelay)]
    /\ UNCHANGED <<clock, rlVars, permVars, toolVars, monVars, gateVars, loopVars, svcVars>>

\* the wait is over: attempt++ and, the loop condition holding, fn() again
SleepEnds ==
    /\ rt.pc = "sleep"
    /\ rt' = [rt EXCEPT !.pc = "attempt", !.attempt = @ + 1, !.calls = @ + 1]
    /\ UNCHANGED <<clock, rlVars, permVars, toolVars, monVars, gateVars, loopVars, svcVars>>

NextRetry ==
    \/ \E maxRetries \in 0..MaxRetriesArg : TimeoutRetryStart(maxRetries)
    \/ \E o \in AttemptOutcomes : TimeoutRetryAttemptEnds(o)
    \/ \E maxRetries \in 0..MaxRetriesArg, maxDelay \in MaxDelays :
          BackoffStart(maxRetries, maxDelay)
    \/ \E o \in {"value", "Error"} : BackoffAttemptEnds(o)
    \/ SleepEnds

InitRetry == rt = IdleRetry

----------------------------------------------------------------------------
(* MonitoringService.start() and stop(), and the interval they register.    *)

\* number of start() and stop() calls followed
MaxLifecycleCalls == 5

\* the service as constructed: metricsInterval = null (0), isRunning = false;
\* timers is the set of intervals registered with the event loop, created the
\* number of setInterval calls so far, calls the start() and stop() calls made
IdleService == [isRunning |-> FALSE, metricsInterval |-> 0, timers |-> {},
                created |-> 0, calls |-> 0]

\* the service after the start() of the process entry point
StartedService == [isRunning |-> TRUE, metricsInterval |-> 1, timers |-> {1},
                   created |-> 1, calls |-> 1]

\* a start() without the isRunning guard
StartUnguarded ==
    /\ svc.calls < MaxLifecycleCalls
    /\ svc' = [svc EXCEPT !.calls = @ + 1, !.isRunning = TRUE,
                          !.created = @ + 1,
                          !.metricsInterval = svc.created + 1,
                          !.timers = @ \cup {svc.created + 1}]
    /\ UNCHANGED <<clock, rlVars, permVars, toolVars, monVars, gateVars, loopVars, retryVars>>

\* start(): return when running; else isRunning = true and setInterval
Start ==
    /\ svc.calls < MaxLifecycleCalls
    /\ svc' = IF svc.isRunning
              THEN [svc EXCEPT !.calls = @ + 1]
              ELSE [svc EXCEPT !.calls = @ + 1, !.isRunning = TRUE,
                               !.created = @ + 1,
                               !.metricsInterval = svc.created + 1,
                               !.timers = @ \cup {svc.created + 1}]
    /\ UNCHANGED <<clock, rlVars, permVars, toolVars, monVars, gateVars, loopVars, retryVars>>

\* stop(): return when not running; else isRunning = false, and
\* clearInterval and null when metricsInterval is set
Stop ==
    /\ svc.calls < MaxLifecycleCalls
    /\ svc' = IF ~svc.isRunning
              THEN [svc EXCEPT !.calls = @ + 1]
              ELSE IF svc.metricsInterval # 0
                   THEN [svc EXCEPT !.calls = @ + 1, !.isRunning = FALSE,
                                    !.timers = @ \ {svc.metricsInterval},
                                    !.metricsInterval = 0]
                   ELSE [svc EXCEPT !.calls = @ + 1, !.isRunning = FALSE]
    /\ UNCHANGED <<clock, rlVars, permVars, toolVars, monVars, gateVars, loopVars, retryVars>>

\* start() and stop() in any order, samples, and the interval of a registered
\* timer firing
NextService ==
    \/ Start
    \/ Stop
    \/ RecordMetric("messages_received", 1)
    \/ AggregateMetrics

InitService == svc = IdleService

\* the loop, the retry helpers and the monitoring service at rest
InitUtil == InitLoop /\ InitRetry /\ InitService

----------------------------------------------------------------------------
\* process start, with an empty tool_permissions table
Init == InitRL /\ InitPerm /\ InitTool /\ InitMon /\ InitValidate /\ InitUtil
          /\ store = [k \in Keys |-> NoRow]

\* the process once its entry point has started the monitoring service
InitStarted == InitRL /\ InitPerm /\ InitTool /\ InitMon /\ InitValidate /\ InitLoop
                 /\ InitRetry /\ svc = StartedService
                 /\ store = [k \in Keys |-> NoRow]

\* process start, with any rows an administrator left in tool_permissions
InitAnyStore == InitRL /\ InitPerm /\ InitTool /\ InitMon /\ InitValidate /\ InitUtil
                  /\ store \in [Keys -> Rows]

\* the rate limiter, with the permission service at rest
Spec == Init /\ [][NextRL]_vars

\* the permission service, with the rate limiter at rest
SpecPerm == InitAnyStore /\ [][NextPerm]_vars

\* the permission service called sequentially, in a changing environment
SpecCache == InitAnyStore /\ [][NextCache]_vars

\* executeWithTimeout called on its own, millisecond by millisecond
SpecTimeout == Init /\ [][NextTimeout]_vars

\* one tool invocation after the other, through any adapter
SpecTool == Init /\ [][NextTool]_vars

\* the monitoring service: bursts of samples and the 60 s interval
SpecMon == InitStarted /\ [][NextMon]_vars

\* calls of validateUserInput, one after another
SpecValidate == Init /\ [][NextValidate]_vars

\* updates handled one after another
SpecHandler == Init /\ [][NextHandler]_vars

\* the same, where a step that can be taken is eventually taken
SpecHandlerLive == Init /\ [][NextHandler]_vars /\ WF_vars(NextHandler)

\* the tool-use loop for one message after another
SpecLoop == Init /\ [][NextLoop]_vars

\* calls of the two retry helpers, one after another
SpecRetry == Init /\ [][NextRetry]_vars

\* the life cycle of the monitoring service
SpecService == Init /\ [][NextService]_vars

----------------------------------------------------------------------------
(* Admission Controller: claims *)

Rejected == req.decision \in {"global", "user"}

\* the step in which rateLimitMiddleware makes its bucket checks
DecideStep == req.pc \in {"idle", "done"} /\ req'.pc \in {"audit", "next"}

\* C1: at every observation point (the stored count, and getTokens() read at
\* the current clock) every bucket's token count is within [0, capacity].
C1_TokensWithinCapacity ==
    /\ globalBucket.tokens \in 0..(GLOBAL_CAPACITY * Scale)
    /\ GetTokens(globalBucket, GLOBAL_CAPACITY, GLOBAL_REFILL_RATE, clock)
          \in 0..(GLOBAL_CAPACITY * Scale)
    /\ \A u \in Users : userBuckets[u] # NoBucket =>
          /\ userBuckets[u].tokens \in 0..(USER_CAPACITY * Scale)
          /\ GetTokens(userBuckets[u], USER_CAPACITY, USER_REFILL_RATE, clock)
                \in 0..(USER_CAPACITY * Scale)

\* C2: a rejected attempt consumes nothing: apart from refill, the global
\* bucket and the caller's bucket hold after it what they held before.
C2_RejectionConsumesNothing ==
    [][(DecideStep /\ req'.pc = "audit") =>
          LET u == req'.user
          IN  /\ globalBucket'.tokens =
                    Refill(globalBucket, GLOBAL_CAPACITY, GLOBAL_REFILL_RATE, clock).tokens
              /\ \/ userBuckets'[u] = userBuckets[u]
                 \/ userBuckets'[u].tokens =
                       Refill(GetUserBucket(u, clock), USER_CAPACITY,
                              USER_REFILL_RATE, clock).tokens]_vars

\* C3: for an update the admission controller rejected, the downstream
\* pipeline (next) is never invoked.
C3_RejectedNeverDownstream == Rejected => req.nextCalls = 0

\* C4: an admitted attempt takes exactly one token from the global bucket and
\* one from the caller's bucket (apart from refill) and leaves every other
\* caller's bucket alone; a new caller's bucket starts full, so with no time
\* elapsed a caller's bucket holds capacity minus its admitted attempts.
C4_AdmitConsumesOneEach ==
    /\ [](~elapsed =>
            \A u \in Users : userBuckets[u] # NoBucket =>
                /\ admitted[u] <= USER_CAPACITY
                /\ userBuckets[u].tokens = (USER_CAPACITY - admitted[u]) * Scale)
    /\ [][(DecideStep /\ req'.pc = "next") =>
            LET u == req'.user
            IN  /\ globalBucket'.tokens =
                      Refill(globalBucket, GLOBAL_CAPACITY, GLOBAL_REFILL_RATE,
                             clock).tokens - Scale
                /\ userBuckets[u] # NoBucket =>
                      userBuckets'[u].tokens =
                         Refill(userBuckets[u], USER_CAPACITY, USER_REFILL_RATE,
                                clock).tokens - Scale
                /\ userBuckets[u] = NoBucket =>
                      userBuckets'[u].tokens = (USER_CAPACITY - 1) * Scale
                /\ \A v \in Users \ {u} : userBuckets'[v] = userBuckets[v]]_vars

\* five attempts by a new caller, no time elapsed: all admitted, 25 tokens
\* left, while another caller's bucket exists
C4_Witness ==
    /\ req.user = HeavyUser /\ req.decision = "admitted"
    /\ ~elapsed
    /\ attempts[HeavyUser] = 5 /\ admitted[HeavyUser] = 5
    /\ userBuckets[HeavyUser].tokens = 25 * Scale
    /\ \E v \in Users \ {HeavyUser} : userBuckets[v] # NoBucket

\* C5: a caller who makes capacity + 1 attempts within a window shorter than
\* capacity / refillRate seconds is rejected on attempt capacity + 1: with a
\* clock that only moved forward and has not reached capacity / refillRate
\* seconds, no caller has capacity + 1 attempts of capacity + 1 admitted.
C5_RejectedBeyondCapacity ==
    \A u \in Users :
        ~ /\ attempts[u] = USER_CAPACITY + 1
          /\ admitted[u] = USER_CAPACITY + 1
          /\ skews = 0
          /\ clock - Epoch < ((USER_CAPACITY * Scale) \div USER_REFILL_RATE) * 1000

\* the bucket that rejected the current update, with its parameters
RejectingBucket ==
    IF req.decision = "global"
    THEN [b |-> globalBucket, capacity |-> GLOBAL_CAPACITY, rate |-> GLOBAL_REFILL_RATE]
    ELSE [b |-> userBuckets[req.user], capacity |-> USER_CAPACITY,
          rate |-> USER_REFILL_RATE]

\* C6: on rejection retryAfterSeconds is the least whole number k of seconds
\* with k * refillRate >= 1 - tokens (that is ceil((1 - tokens) / refillRate)),
\* it is at least 1, and an attempt on that bucket k seconds after the
\* rejection, nothing consumed in between, is allowed.
C6_RetryAfterSufficient ==
    Rejected =>
        LET rb == RejectingBucket
            need == Scale - rb.b.tokens
            k == req.retry
        IN  /\ k >= 1
            /\ (k - 1) * rb.rate < need
            /\ need <= k * rb.rate
            /\ TryConsume(rb.b, rb.capacity, rb.rate,
                          rb.b.lastRefill + k * 1000).allowed

\* the global bucket has rejected an update: 1 / 1.67 s rounds up to 1 s
C6_Witness ==
    /\ req.decision = "global" /\ req.pc = "done" /\ req.replied
    /\ req.retry = 1

\* C7: when the bucket checks themselves throw, the update is passed
\* downstream once, the error is logged, and nothing of a rate-limit
\* rejection is produced: no audit event, no counter, no rejection reply.
C7_FailOpen ==
    (req.decision = "fault" /\ req.pc = "done") =>
        /\ req.nextCalls = 1
        /\ req.errLogged
        /\ req.audited = "none" /\ req.counted = "none"
        /\ ~req.replied

C7_Witness ==
    /\ req.decision = "fault" /\ req.pc = "done"
    /\ req.user = HeavyUser /\ attempts[HeavyUser] > 1

----------------------------------------------------------------------------
(* Permission Gate: claims *)

CheckDone(p) == procs[p].op = "check" /\ procs[p].pc = "done"

\* C8: on a cache miss whose store query succeeds, checkToolPermission reads
\* the pair's row as the store holds it and returns true iff there is a row
\* with is_allowed = true and revoked_at null; no row, is_allowed false or
\* revoked_at set give false.
C8_DefaultDeny ==
    /\ [](\A p \in Procs :
            (CheckDone(p) /\ ~procs[p].hit /\ procs[p].outcome = "ok") =>
                (procs[p].result = "true" <=>
                    /\ procs[p].data # NoRow
                    /\ procs[p].data.is_allowed
                    /\ procs[p].data.revoked_at = "null"))
    /\ [][\A p \in Procs :
            (procs[p].pc = "query" /\ procs'[p].pc = "resume"
                /\ procs'[p].outcome = "ok") =>
                procs'[p].data = store[procs[p].key]]_vars

\* a row with is_allowed = true but revoked_at set was read and denied
C8_Witness ==
    \E p \in Procs :
        /\ CheckDone(p) /\ ~procs[p].hit /\ procs[p].outcome = "ok"
        /\ procs[p].data = [exists |-> TRUE, is_allowed |-> TRUE, revoked_at |-> "set"]
        /\ procs[p].result = "false"

\* C9: a check that runs with no concurrent call on its pair, after a grant
\* that succeeded alone, returns true (its store query succeeding); after a
\* revoke that succeeded alone it returns false.
C9_GrantRevokeRoundTrip ==
    \A p \in Procs :
        (CheckDone(p) /\ procs[p].alone) =>
            /\ (procs[p].basis = "grant"
                   /\ (procs[p].hit \/ procs[p].outcome = "ok"))
                  => procs[p].result = "true"
            /\ procs[p].basis = "revoke" => procs[p].result = "false"

\* a deny was cached over no row; a grant alone, then a check alone: true
C9_Witness ==
    \E p \in Procs :
        /\ CheckDone(p) /\ procs[p].alone /\ procs[p].basis = "grant"
        /\ ~procs[p].hit /\ procs[p].result = "true"
        /\ store = [k \in Keys |-> GrantedRow]
        /\ \E q \in Procs \ {p} : procs[q].op = "grant" /\ procs[q].result = "true"

\* C10: whatever the interleaving, a check that starts after a revoke has
\* returned success, and before any later grant reaches the store, returns
\* false.
C10_NoStaleAllowAfterRevoke ==
    \A p \in Procs :
        (CheckDone(p) /\ procs[p].afterRevoke) => procs[p].result = "false"

\* C11 as stated: every check that ran entirely while the store was
\* unreachable returned false, whatever the (caller, tool).
C11_DeniedWhileStoreDown ==
    \A p \in Procs :
        (CheckDone(p) /\ procs[p].down) => procs[p].result = "false"

\* C11: a check that finds no cache entry younger than the TTL, and runs
\* while the store is unreachable or gets an error, an exception or data of
\* another shape from its query, returns false, never true.
C11_FailClosedOnMiss ==
    \A p \in Procs :
        (CheckDone(p) /\ ~procs[p].hit
            /\ (procs[p].down \/ procs[p].outcome # "ok"))
        => procs[p].result = "false"

\* the store holds a granted row, is unreachable, and the check denied
C11_Witness ==
    /\ ~storeUp
    /\ CheckDone(SoloProc) /\ ~procs[SoloProc].hit /\ procs[SoloProc].down
    /\ store[procs[SoloProc].key] = GrantedRow
    /\ procs[SoloProc].result = "false"

\* C12: for every answer of the store (a row, no row, an error, an exception,
\* data of another shape) a check that got its answer can return, and every
\* check that returned resolved to a boolean.
C12_ResolvesToBoolean ==
    \A p \in Procs :
        /\ (procs[p].op = "check" /\ procs[p].pc = "resume")
              => ENABLED CheckResume(p)
        /\ CheckDone(p) => procs[p].result \in {"true", "false"}

\* the client threw although the store held a granted row: resolved to false
C12_Witness ==
    /\ CheckDone(SoloProc) /\ procs[SoloProc].outcome = "throw"
    /\ store[procs[SoloProc].key] = GrantedRow
    /\ procs[SoloProc].result = "false"

\* C13: every decision served from the cache was cached less than the TTL
\* ago.
C13_CacheServedWithinTtl ==
    \A p \in Procs :
        (CheckDone(p) /\ procs[p].hit) => procs[p].servedAge < CACHE_TTL_MS

----------------------------------------------------------------------------
(* Bounded Executor and tool adapters: claims *)

ToolFailed == tool.pc = "done" /\ tool.caught # "none"

AuditTypes == {tool.audits[i].event.type : i \in DOMAIN tool.audits}

\* C14: in every execution path of every adapter the tool's operation is
\* started only after checkToolPermission returned true for the invocation.
C14_PermissionBeforeExecution ==
    tool.opStarted => tool.permission = "true"

\* C15: executeWithTimeout resolves with the operation's value whenever the
\* operation resolved before timeoutMs had elapsed, and rejects with the
\* TimeoutError whenever the operation had not settled when timeoutMs had
\* elapsed.
C15_TimeoutBoundary ==
    tw.pc = "done" =>
        /\ (tw.op = "resolved" /\ tw.opAt < Due(tw)) => tw.outcome = "value"
        /\ (tw.op = "pending" \/ tw.opAt > Due(tw)) => tw.outcome = "timeout"

\* C16: when the operation rejects before timeoutMs has elapsed the call
\* rejects with the operation's own error, not the timer's TimeoutError; the
\* call rejects with the timer's TimeoutError only when timeoutMs had elapsed
\* and the operation had not settled before.
C16_OperationErrorWins ==
    tw.pc = "done" =>
        /\ (tw.op = "rejected" /\ tw.opAt < Due(tw))
              => (tw.outcome = "error" /\ tw.err \in OpErrors)
        /\ tw.outcome = "timeout"
              => /\ tw.err = "TimeoutError"
                 /\ tw.settledAt >= Due(tw)
                 /\ (tw.op = "pending" \/ tw.opAt >= tw.settledAt)

\* the operation rejected 1 ms into a 2 ms deadline, with an error that is
\* itself named TimeoutError: passed through as the operation's error
C16_Witness ==
    /\ tw.pc = "done" /\ tw.op = "rejected" /\ tw.err = "NamedTimeoutError"
    /\ tw.opAt > tw.startedAt /\ tw.opAt < Due(tw)
    /\ tw.outcome = "error"

\* C17: whenever the call has settled, by the operation's value, by its
\* error or by the timeout, its timer is no longer pending: it was cleared,
\* or it has run.
C17_TimerCleared ==
    tw.pc = "done" =>
        /\ tw.timer \in {"cleared", "fired"}
        /\ tw.outcome \in {"value", "error"} => tw.timer = "cleared"

\* the operation resolved before the deadline; the timer was cleared and
\* time went on past the deadline
C17_Witness ==
    /\ tw.pc = "done" /\ tw.outcome = "value" /\ tw.opAt < Due(tw)
    /\ tw.timer = "cleared"
    /\ clock > Due(tw)

\* C18: in every adapter an invocation (made with a userId) that hit the
\* 30 s deadline has a tool_timeout audit event and a tool_timeouts count and
\* no tool_error event; any other failed invocation has a tool_error event
\* and no tool_timeout event.
C18_TimeoutVersusError ==
    (ToolFailed /\ tool.hasUser) =>
        IF tool.caught = "TimeoutError"
        THEN /\ "tool_timeout" \in AuditTypes
             /\ \E i \in DOMAIN tool.metrics : tool.metrics[i].name = "tool_timeouts"
             /\ "tool_error" \notin AuditTypes
        ELSE /\ "tool_error" \in AuditTypes
             /\ "tool_timeout" \notin AuditTypes

\* C19: every invocation (made with a userId) that ended in a timeout or
\* another failure has a tool_execution audit event with its duration and
\* success = false, and a tool_execution_duration sample tagged
\* success = false.
C19_FailureRecordsExecution ==
    (ToolFailed /\ tool.hasUser) =>
        /\ \E i \in DOMAIN tool.audits :
              /\ tool.audits[i].event.type = "tool_execution"
              /\ tool.audits[i].event.success = "false"
              /\ tool.audits[i].event.durationMs # NoTime
        /\ \E i \in DOMAIN tool.metrics :
              /\ tool.metrics[i].name = "tool_execution_duration"
              /\ tool.metrics[i].success = "false"

\* C20: every auditLog call resolves, whether its insert succeeded, returned
\* an error or threw; a failed insert is logged locally and stores nothing.
C20_AuditLogNeverThrows ==
    \A i \in DOMAIN tool.audits :
        LET a == tool.audits[i]
        IN  /\ a.settled = "resolved"
            /\ a.logged <=> a.outcome # "ok"
            /\ a.stored <=> a.outcome = "ok"

\* the insert of the tool_execution event threw; the adapter still returned
\* the tool's value
C20_Witness ==
    /\ tool.pc = "done" /\ tool.result = "value"
    /\ \E i \in DOMAIN tool.audits :
          /\ tool.audits[i].outcome = "throw"
          /\ tool.audits[i].event.type = "tool_execution"
          /\ tool.audits[i].settled = "resolved" /\ tool.audits[i].logged

----------------------------------------------------------------------------
(* Monitoring claims                                                        *)

\* an earlier alert of type a that still holds back an alert at time now
HeldBack(a, now) ==
    \E i \in 1..Len(alerts[a]) :
        alerts[a][i] < now /\ now - alerts[a][i] < ALERT_COOLDOWN_MS

\* C21: two alerts of one type are never less than the 5-minute cooldown
\* apart, however often the breach is evaluated; every fired alert made
\* exactly one auditLog('error') call; and an alert asked for at the last
\* evaluation fired unless an earlier alert of the same type held it back, so
\* the cooldown of another type never suppresses it.
C21_AlertDedup ==
    \A a \in AlertTypes :
        /\ \A i, j \in 1..Len(alerts[a]) :
              i < j => alerts[a][j] - alerts[a][i] >= ALERT_COOLDOWN_MS
        /\ alertAudits[a] = Len(alerts[a])
        /\ (a \in lastStats.triggered /\ ~HeldBack(a, lastStats.at))
              => \E i \in 1..Len(alerts[a]) : alerts[a][i] = lastStats.at

\* a tool-timeout breach that fired once is evaluated again inside its
\* cooldown and stays at one alert and one audit call, while another alert
\* type fired after it
C21_Witness ==
    /\ Len(alerts["high_tool_timeouts"]) = 1
    /\ alertAudits["high_tool_timeouts"] = 1
    /\ "high_tool_timeouts" \in lastStats.triggered
    /\ lastStats.at > alerts["high_tool_timeouts"][1]
    /\ lastStats.at - alerts["high_tool_timeouts"][1] < ALERT_COOLDOWN_MS
    /\ \E b \in AlertTypes \ {"high_tool_timeouts"} :
          /\ Len(alerts[b]) = 1
          /\ alerts[b][1] > alerts["high_tool_timeouts"][1]
          /\ alerts[b][1] - alerts["high_tool_timeouts"][1] < ALERT_COOLDOWN_MS

\* the number of samples of a name ever recorded with a timestamp inside the
\* window that ends at now
RecordedInWindow(name, timeWindowMs, now) ==
    Count(SelectSeq(recorded[name], LAMBDA dp : InWindow(dp, now - timeWindowMs)))

\* C22: a step that writes a series leaves it ending with the new sample and
\* holding no sample older than the 5-minute retention; and the counts an
\* evaluation makes are the numbers of samples recorded so far whose
\* timestamp lies in the evaluation window, whether or not the series was
\* pruned.
C22_RetentionAndWindows ==
    [][/\ \A name \in MetricNames :
            metrics'[name] # metrics[name] =>
                /\ metrics'[name] # <<>>
                /\ metrics'[name][Len(metrics'[name])].timestamp = clock'
                /\ \A i \in 1..Len(metrics'[name]) :
                      metrics'[name][i].timestamp >= clock' - METRIC_RETENTION_MS
       /\ lastStats' # lastStats =>
            /\ lastStats'.at = clock'
            /\ lastStats'.errorCount
                 = RecordedInWindow("errors", METRIC_RETENTION_MS, clock')
            /\ lastStats'.totalRequests
                 = RecordedInWindow("messages_received", METRIC_RETENTION_MS, clock')
            /\ lastStats'.rateLimitViolations
                 = RecordedInWindow("rate_limit_violations", INTERVAL_MS, clock')
            /\ lastStats'.authFailures
                 = RecordedInWindow("auth_failures", INTERVAL_MS, clock')
            /\ lastStats'.toolTimeouts
                 = RecordedInWindow("tool_timeouts", METRIC_RETENTION_MS, clock')]_vars

\* one series was pruned by a write (a recorded sample is gone from it) while
\* another, not written since, still stores a sample older than the window
\* that the evaluation just made did not count
C22_Witness ==
    /\ lastStats.at = clock
    /\ \E name \in MetricNames :
          /\ metrics[name] # <<>>
          /\ Len(metrics[name]) < Len(recorded[name])
    /\ \E name \in {"rate_limit_violations", "auth_failures"} :
          /\ metrics[name] # <<>>
          /\ metrics[name][1].timestamp < clock - INTERVAL_MS
          /\ RecordedInWindow(name, INTERVAL_MS, clock) = 0
          /\ lastStats.rateLimitViolations = 0
          /\ lastStats.authFailures = 0

\* C23: at an evaluation the high_error_rate alert is asked for exactly when
\* the errors in the window exceed 10% of the messages received in it, and
\* the other alerts exactly when their count is strictly above its threshold.
C23_StrictThresholds ==
    lastStats.at # NoTime =>
        /\ "high_error_rate" \in lastStats.triggered
              <=> ERROR_RATE_ONE_IN * lastStats.errorCount > lastStats.totalRequests
        /\ "high_rate_limit_violations" \in lastStats.triggered
              <=> lastStats.rateLimitViolations > RATE_LIMIT_VIOLATIONS_WARNING
        /\ "high_auth_failures" \in lastStats.triggered
              <=> lastStats.authFailures > AUTH_FAILURES_WARNING
        /\ "high_tool_timeouts" \in lastStats.triggered
              <=> lastStats.toolTimeouts > TOOL_TIMEOUT_WARNING

----------------------------------------------------------------------------
(* Content gate claims                                                      *)

\* the command-injection pattern matches somewhere in the text
CommandPatternMatches(text) == \E p \in 1..Len(text) : MatchEnd(text, p) # 0

HasEntry(violations, entry) == \E i \in 1..Len(violations) : violations[i] = entry

\* C24: the last call returned isValid = true exactly when its message has no
\* null byte, matches no command-injection and no prompt-injection pattern,
\* is not longer than maxLength and is not empty after trimming; and each of
\* the five conditions that holds has its entry in the violations.
C24_ValidIffNoCondition ==
    call # NoCall =>
        LET text == RemoveNulls(call.message)
            a == HasNull(call.message)
            b == CommandPatternMatches(text)
            c == PromptInjectionFound(text)
            d == Len(text) > call.maxLength
            e == Trim(Substring(text, call.maxLength)) = <<>>
        IN  /\ call.isValid <=> ~(a \/ b \/ c \/ d \/ e)
            /\ a => HasEntry(call.violations, "Contains null bytes or dangerous characters")
            /\ b => HasEntry(call.violations, "Contains potential command injection patterns")
            /\ c => HasEntry(call.violations, "Contains potential prompt injection patterns")
            /\ d => HasEntry(call.violations, "Message exceeds maximum length")
            /\ e => HasEntry(call.violations, "Message is empty after sanitization")

\* C25: a call on the sanitized text that the call before it returned with no
\* violations reports no violations again and returns that text unchanged.
C25_FixedPoint ==
    [][(/\ call # NoCall
        /\ call.violations = <<>>
        /\ call'.message = call.sanitized
        /\ call'.maxLength = call.maxLength)
          => (call'.violations = <<>> /\ call'.sanitized = call.sanitized)]_vars

\* C30: a call with the same message and maxLength as the call before it
\* returns the same isValid, sanitized text and violations.
C30_FunctionOfArguments ==
    [][(/\ call # NoCall
        /\ call'.message = call.message
        /\ call'.maxLength = call.maxLength) => call' = call]_vars

----------------------------------------------------------------------------
(* Pipeline claims                                                          *)

\* the audit event type and the counter that belong to a rejection reply
AuditFor(reply) ==
    CASE reply = "rate_limit" -> "rate_limit_exceeded"
      [] reply = "unauthorized" -> "auth_failure"
      [] reply = "invalid" -> "validation_failure"
      [] reply = "error" -> "error"

MetricFor(reply) ==
    CASE reply = "rate_limit" -> "rate_limit_violations"
      [] reply = "unauthorized" -> "auth_failures"
      [] reply = "invalid" -> "validation_failures"
      [] reply = "error" -> "errors"

ErrorReplies == {"rate_limit", "unauthorized", "invalid", "error"}

\* C26: every reply sent on an error path (rate limit, authentication,
\* validation, processing error) comes after an audit write of that error's
\* event type and after an increment of that error's counter, both attempted
\* for the same update.
C26_AuditAndMetricBeforeReply ==
    \A i \in 1..Len(hd.events) :
        (hd.events[i].kind = "reply" /\ hd.events[i].name \in ErrorReplies) =>
            /\ \E j \in 1..(i - 1) :
                  hd.events[j] = Ev("audit", AuditFor(hd.events[i].name))
            /\ \E j \in 1..(i - 1) :
                  hd.events[j] = Ev("metric", MetricFor(hd.events[i].name))

\* C27: whenever the audit write of a rejection (rate limit, authentication,
\* validation) has been issued, the reply to the caller is eventually sent.
C27_ReplyDespiteAuditFailure ==
    (hd.pc = "audit" /\ hd.after \in {"rate_limited", "auth_failed", "invalid"})
        ~> (hd.pc = "done")

\* the handler has run validateUserInput on the update's message
Validated == \E i \in 1..Len(hd.events) : hd.events[i] = Ev("metric", "messages_received")

----------------------------------------------------------------------------
(* Burst limit                                                              *)

\* RATE_LIMITS.USER_BURST
USER_BURST == 5

\* C29: while no time has elapsed since start-up and no check has thrown, no
\* caller has more than USER_BURST = 5 attempts admitted.
C29_BurstOfFive ==
    (~elapsed /\ faults = 0) => \A u \in Users : admitted[u] <= USER_BURST

----------------------------------------------------------------------------
(* Sanitized output                                                         *)

\* C31: the sanitized text returned by the last call is at most maxLength
\* characters long and holds no null byte, whether the call reported the
\* input valid or not.
C31_SanitizedBounded ==
    call # NoCall =>
        /\ Len(call.sanitized) <= call.maxLength
        /\ ~HasNull(call.sanitized)

\* a rejected input with a null byte and more than maxLength other
\* characters came back without the null byte and cut to maxLength
C31_Witness ==
    /\ call # NoCall /\ ~call.isValid
    /\ HasNull(call.message)
    /\ Len(RemoveNulls(call.message)) > call.maxLength
    /\ Len(call.sanitized) = call.maxLength
    /\ ~HasNull(call.sanitized)

----------------------------------------------------------------------------
(* The operation after a timeout                                            *)

----------------------------------------------------------------------------
(* Permission denial                                                        *)

\* C33: an invocation refused by the permission check ends with exactly one
\* audit event, of type permission_denied, and with no metric sample: no
\* tool_error, no tool_execution, no tool_execution_duration.
C33_DenialIsNotAFailure ==
    (tool.denied /\ tool.pc = "done") =>
        /\ Len(tool.audits) = 1
        /\ tool.audits[1].event.type = "permission_denied"
        /\ tool.metrics = <<>>

----------------------------------------------------------------------------
(* Failed store operations and the cache                                    *)

\* C34: the step in which a check, a grant or a revoke returns after the
\* store answered with an error or threw leaves permissionCache and
\* cacheTimestamps as they were, and the call returns false.
C34_FailedOperationKeepsCache ==
    [][\A p \in Procs :
          (/\ procs[p].pc = "resume" /\ procs'[p].pc = "done"
           /\ procs[p].outcome \in {"error", "throw"}) =>
              /\ permissionCache' = permissionCache
              /\ cacheTimestamps' = cacheTimestamps
              /\ procs'[p].result = "false"]_vars

\* a revoke got a store error and returned false while the pair's cached
\* decision, true, is still in the cache
C34_Witness ==
    \E p \in Procs :
        /\ procs[p].op = "revoke" /\ procs[p].pc = "done"
        /\ procs[p].outcome = "error" /\ procs[p].result = "false"
        /\ permissionCache[procs[p].key] = "true"
        /\ cacheTimestamps[procs[p].key] # NoTime

----------------------------------------------------------------------------
(* Tool-use loop claims                                                     *)

\* C35: for one message the loop performs at most maxIterations = 7 tool
\* executions.
C35_AtMostSevenExecutions == lp.executions <= maxIterations

\* C36: executeWithTimeoutAndRetry calls fn at most maxRetries + 1 times; every
\* attempt that was followed by another ended with a TimeoutError; a thrown
\* error is the error of the last attempt, and a thrown TimeoutError means
\* that maxRetries + 1 attempts timed out; a value is returned by the attempt
\* that produced it; the waits are of retryDelayMs, one between two attempts
\* and none after the last.
C36_RetryOnlyAfterTimeout ==
    rt.helper = "executeWithTimeoutAndRetry" =>
        /\ rt.calls <= rt.maxRetries + 1
        /\ \A i \in 1..Len(rt.errors) : i < rt.calls => rt.errors[i] = "TimeoutError"
        /\ rt.outcome = "thrown" =>
              /\ Len(rt.errors) = rt.calls
              /\ rt.error = rt.errors[Len(rt.errors)]
              /\ rt.error = "TimeoutError" => rt.calls = rt.maxRetries + 1
        /\ rt.outcome = "value" => Len(rt.errors) = rt.calls - 1
        /\ Len(rt.waits) = IF rt.pc = "sleep" THEN rt.calls ELSE rt.calls - 1
        /\ \A i \in 1..Len(rt.waits) : rt.waits[i] = RETRY_DELAY_MS

\* every attempt of a call with maxRetries >= 2 timed out and the call rejected
C36_Witness ==
    /\ rt.helper = "executeWithTimeoutAndRetry" /\ rt.pc = "done"
    /\ rt.maxRetries >= 2 /\ rt.calls = rt.maxRetries + 1
    /\ rt.outcome = "thrown" /\ rt.error = "TimeoutError"
    /\ Len(rt.waits) = rt.maxRetries

\* C37: when every attempt fails, retryWithBackoff with maxRetries = n has
\* called fn n + 1 times by the time it rejects.
C37_CallsOneMoreThanMaxRetries ==
    (rt.helper = "retryWithBackoff" /\ rt.pc = "done" /\ rt.outcome = "thrown") =>
        rt.calls = rt.maxRetries + 1

\* C38: the service has at most one registered timer, isRunning is true
\* exactly when one is registered, and it is the one in metricsInterval; a
\* timer is created only by a start() of a stopped service with none
\* registered, a step that ends isRunning leaves no timer registered, and the
\* interval fires (the clock advances by a tick) only while the service runs.
C38_AtMostOneTimer ==
    /\ [](/\ Cardinality(svc.timers) <= 1
          /\ svc.isRunning <=> svc.timers # {}
          /\ svc.timers = IF svc.metricsInterval = 0 THEN {} ELSE {svc.metricsInterval})
    /\ [][/\ svc'.created # svc.created => ~svc.isRunning /\ svc.timers = {}
          /\ svc.isRunning /\ svc'.isRunning => svc'.timers = svc.timers
          /\ svc.isRunning /\ ~svc'.isRunning => svc'.timers = {}
          /\ clock' # clock => svc.isRunning /\ svc'.isRunning]_vars

\* start, a second start, ticks, stop and start again: the second timer
C38_Witness ==
    /\ svc.isRunning /\ svc.created = 2 /\ svc.calls >= 4
    /\ clock >= Epoch + 2 * INTERVAL_MS

\* C39: for one inbound update rateLimitMiddleware calls next at most once.
C39_NextAtMostOnce == req.nextCalls <= 1

\* C40: authMiddleware calls next only for an update whose lookup returned a
\* verified user; an update whose lookup returned nobody or threw gets no
\* next call and is neither saved nor given to the engine; and the refusal
\* to an unverified caller comes after the auth_failure audit write and,
\* after that, the auth_failures increment.
C40_FailsClosed ==
    /\ \A i \in 1..Len(hd.events) :
          hd.events[i] = Ev("next", "authMiddleware") => hd.user = "verified"
    /\ hd.user \in {"none", "throws"} =>
          /\ \A i \in 1..Len(hd.events) : hd.events[i].kind # "next"
          /\ hd.saved = <<>> /\ hd.engine = <<>>
          /\ hd.reply \in {"none", "unauthorized", "verify_error"}
    /\ \A i \in 1..Len(hd.events) :
          hd.events[i] = Ev("reply", "unauthorized") =>
              /\ hd.user = "none"
              /\ \E j \in 1..(i - 1), k \in 1..(i - 1) :
                    /\ j < k
                    /\ hd.events[j] = Ev("audit", "auth_failure")
                    /\ hd.events[k] = Ev("metric", "auth_failures")

\* an unverified caller has been refused, or a caller whose lookup threw has
\* been told so
C40_Witness ==
    /\ hd.pc = "done"
    /\ \/ hd.user = "none" /\ hd.events[Len(hd.events)] = Ev("reply", "unauthorized")
       \/ hd.user = "throws" /\ hd.events[Len(hd.events)] = Ev("reply", "verify_error")

============================================================================
